---- MODULE Spec2Model ----
(***************************************************************************)
(* Model of the module orchestration core of sentinel-crt:                 *)
(*   src/sentinel/core/module_manager.py  (ModuleManager, ModuleState)     *)
(*   src/sentinel/core/module.py          (ScreenModule)                   *)
(*   src/sentinel/core/event_bus.py       (EventBus)                       *)
(*   src/sentinel/core/service_manager.py (ServiceManager)                 *)
(* Times are in seconds.  Optional values (Python None or a value) are     *)
(* NoneV or Some(v).  An unset current_screen is NoScreen.                 *)
(***************************************************************************)
EXTENDS Integers, Sequences, FiniteSets, TLC

VARIABLES
    modules,        \* ModuleManager._modules: registered names, in insertion order
    active,         \* ScreenModule.active of the module object of each name
    states,         \* ModuleManager._states: name -> ModuleState
    rules,          \* ModuleManager._rules
    idle_cycle,     \* ModuleManager._idle_cycle
    idle_index,     \* ModuleManager._idle_index (0-based, as in the code)
    idle_timer,     \* ModuleManager._idle_timer
    idle_dwell,     \* ModuleManager._idle_dwell
    state_timeout,  \* ModuleManager._state_timeout
    current_screen, \* ModuleManager.current_screen
    app_screen,     \* app.current_screen, the host application's mirror
    now,            \* time.monotonic()
    last,           \* history: the most recent operation, what it invoked, how it ended
    elapsed,        \* history: sum of the dt of the updates so far
    exact,          \* history: every idle advance so far happened with idle_timer = idle_dwell
    upd,            \* the owning thread's position inside update() (interleaved runs)
    bound,          \* ScreenModule.manager/app/name are set, for the module object of each name
    bus,            \* the EventBus: _handlers, _lock, and the publishes in progress
    svc,            \* the ServiceManager: _instances, and what its calls have done
    raw_config,     \* the "rules" value of the mapping handed to _load_priority_config
    ctor,           \* the arguments of a ModuleManager(...) call that has not run yet
    race            \* an unregister and a module's report_state in progress at once

vars == <<modules, active, states, rules, idle_cycle, idle_index, idle_timer,
          idle_dwell, state_timeout, current_screen, app_screen, now,
          last, elapsed, exact, upd, bound, bus, svc, raw_config, ctor, race>>

\* the state outside the module manager and its modules
Rest == <<bus, svc, raw_config, ctor, race>>

----------------------------------------------------------------------------
\* Values

\* the modules loaded (of DEFAULT_MODULES, eonet_globe is left out)
Names == {"camera", "radar", "neo_tracker"}

NoScreen == "None"

NoneV == <<>>

Some(v) == <<v>>

IsNone(x) == x = <<>>

Val(x) == x[1]

SeqSet(s) == {s[i] : i \in 1..Len(s)}

\* list.index(x): the first position of x, 0-based
IndexOf(s, x) == (CHOOSE i \in 1..Len(s) : s[i] = x /\ \A j \in 1..(i-1) : s[j] # x) - 1

\* dict.pop(key, None) on a mapping kept as a function
DictPop(d, k) == [x \in (DOMAIN d) \ {k} |-> d[x]]

\* d[key] = value
DictSet(d, k, v) == [x \in (DOMAIN d) \cup {k} |-> IF x = k THEN v ELSE d[x]]

\* the keys of dict `modules` after del modules[name]
SeqRemove(s, x) == SelectSeq(s, LAMBDA y : y # x)

----------------------------------------------------------------------------
\* ModuleState and PriorityRule

ModuleState(state, metadata, weight, expires_in, timestamp) ==
    [state |-> state, metadata |-> metadata, weight_override |-> weight,
     expires_in |-> expires_in, timestamp |-> timestamp]

PriorityRule(module, sts, weight, screen) ==
    [module |-> module, states |-> sts, weight |-> weight, screen |-> screen]

\* ModuleState.is_expired with the comparison made non-strict (a plausible slip)
IsExpiredNonStrict(st, t, default_timeout) ==
    LET timeout == IF ~IsNone(st.expires_in) THEN Val(st.expires_in) ELSE default_timeout
    IN  IF timeout <= 0 THEN FALSE ELSE (t - st.timestamp) >= timeout

\* ModuleState.is_expired with the subtraction reversed (a plausible slip)
IsExpiredReversed(st, t, default_timeout) ==
    LET timeout == IF ~IsNone(st.expires_in) THEN Val(st.expires_in) ELSE default_timeout
    IN  IF timeout <= 0 THEN FALSE ELSE (st.timestamp - t) > timeout

\* ModuleState.is_expired without the early return of lines 37-38: a timeout of
\* zero or less is compared like any other
IsExpiredNoFloor(st, t, default_timeout) ==
    LET timeout == IF ~IsNone(st.expires_in) THEN Val(st.expires_in) ELSE default_timeout
    IN  (t - st.timestamp) > timeout

\* ModuleState.is_expired(now, default_timeout)
IsExpired(st, t, default_timeout) ==
    LET timeout == IF ~IsNone(st.expires_in) THEN Val(st.expires_in) ELSE default_timeout
    IN  IF timeout <= 0 THEN FALSE ELSE (t - st.timestamp) > timeout

----------------------------------------------------------------------------
\* _resolve_priority: the scan over the rule list

\* the loop's two locals before the first rule: best_screen = None, best_weight = -inf
NoBest == [screen |-> NoScreen, inf |-> TRUE, weight |-> 0]

\* weight > best_weight
Beats(w, best) == best.inf \/ w > best.weight

\* the weight of a matching rule that ignores the state's override
RuleWeightOnly(rule, st) == rule.weight

\* weight_override if it is not None, else rule.weight
EffectiveWeight(rule, st) ==
    IF ~IsNone(st.weight_override) THEN Val(st.weight_override) ELSE rule.weight

\* one iteration of the loop with weight >= best_weight: a later rule of equal
\* weight would win
ResolveStepLastWins(best, rule, sts) ==
    IF rule.module \notin DOMAIN sts THEN best
    ELSE LET st == sts[rule.module]
         IN  IF rule.states # {} /\ st.state \notin rule.states THEN best
             ELSE LET w == EffectiveWeight(rule, st)
                  IN  IF best.inf \/ w >= best.weight
                      THEN [screen |-> rule.screen, inf |-> FALSE, weight |-> w]
                      ELSE best

\* one iteration of the loop over self._rules
ResolveStep(best, rule, sts) ==
    IF rule.module \notin DOMAIN sts THEN best
    ELSE LET st == sts[rule.module]
         IN  IF rule.states # {} /\ st.state \notin rule.states THEN best
             ELSE LET w == EffectiveWeight(rule, st)
                  IN  IF Beats(w, best)
                      THEN [screen |-> rule.screen, inf |-> FALSE, weight |-> w]
                      ELSE best

RECURSIVE ResolveScan(_, _, _, _)
\* the loop from rule i on, with the locals in `best`
ResolveScan(rs, sts, i, best) ==
    IF i > Len(rs) THEN best
    ELSE ResolveScan(rs, sts, i + 1, ResolveStep(best, rs[i], sts))

\* _resolve_priority(): best_screen
ResolvePriority(rs, sts) == ResolveScan(rs, sts, 1, NoBest).screen

----------------------------------------------------------------------------
\* The manager as a value: the fields an operation reads and writes, plus the
\* invocations of module methods it has made so far (calls, ctx) and the dt the
\* operation was called with (0 for the operations that take none).

Mgr == [modules |-> modules, active |-> active, bound |-> bound, states |-> states,
        current_screen |-> current_screen, idle_index |-> idle_index,
        idle_timer |-> idle_timer, app_screen |-> app_screen,
        calls |-> <<>>, ctx |-> <<>>, dt |-> 0, raised |-> FALSE]

Registered(M, name) == name \in SeqSet(M.modules)

\* the invocation of a module method: calls records which method of which
\* module, ctx what the module could observe when it ran (the manager's
\* current_screen and the module's own active flag)
Call(M, method, name) ==
    [M EXCEPT !.calls = Append(@, <<method, name>>),
              !.ctx = Append(@, [screen |-> M.current_screen, active |-> M.active[name]])]

\* lines 281-284 of _activate without line 283: the previous module is told to
\* hide but its active flag stays set
HidePreviousStillActive(M) ==
    IF M.current_screen # NoScreen /\ Registered(M, M.current_screen)
    THEN Call(M, "on_hide", M.current_screen)
    ELSE M

\* lines 281-284 of _activate: the previously active module is hidden
HidePrevious(M) ==
    IF M.current_screen # NoScreen /\ Registered(M, M.current_screen)
    THEN LET previous == M.current_screen
         IN  Call([M EXCEPT !.active[previous] = FALSE], "on_hide", previous)
    ELSE M

\* _activate without lines 291-295: the idle cursor stays where it was
CursorStays(M, name) == M

\* lines 291-295 of _activate: the idle cursor follows the activated name
FollowCursor(M, name) ==
    IF name \in SeqSet(idle_cycle)
    THEN [M EXCEPT !.idle_index = IndexOf(idle_cycle, name)]
    ELSE M

\* _activate(name) with the new module shown before the previous one is hidden
\* and before current_screen is assigned (a plausible reordering)
ActivateShowFirst(M, name) ==
    IF ~Registered(M, name) THEN M
    ELSE LET M1 == Call([M EXCEPT !.active[name] = TRUE], "on_show", name)
             M2 == HidePrevious(M1)
             M3 == [M2 EXCEPT !.current_screen = name, !.app_screen = name]
         IN  FollowCursor(M3, name)

\* _activate(name) without lines 279-280: for a name that is not registered the
\* previous module is hidden and current_screen assigned before the lookup of
\* line 286 fails
ActivateNoGuard(M, name) ==
    LET M1 == HidePrevious(M)
        M2 == [M1 EXCEPT !.current_screen = name]
    IN  IF ~Registered(M, name) THEN [M2 EXCEPT !.raised = TRUE]
        ELSE FollowCursor([Call([M2 EXCEPT !.active[name] = TRUE], "on_show", name)
                              EXCEPT !.app_screen = name], name)

\* ModuleManager._activate(name)
Activate(M, name) ==
    IF ~Registered(M, name) THEN M
    ELSE LET M1 == HidePrevious(M)
             M2 == Call([M1 EXCEPT !.current_screen = name,
                                   !.active[name] = TRUE], "on_show", name)
             M3 == [M2 EXCEPT !.app_screen = name]
         IN  FollowCursor(M3, name)

\* _advance_idle(dt) that advances only when the timer has passed the dwell time
\* (timer <= dwell returns): a plausible slip
AdvanceIdleLate(M, dt) ==
    IF idle_cycle = <<>> THEN M
    ELSE IF M.current_screen \notin SeqSet(idle_cycle)
    THEN [Activate([M EXCEPT !.idle_index = 0], idle_cycle[1]) EXCEPT !.idle_timer = 0]
    ELSE LET timer == M.idle_timer + dt
         IN  IF timer <= idle_dwell THEN [M EXCEPT !.idle_timer = timer]
             ELSE LET index == (M.idle_index + 1) % Len(idle_cycle)
                  IN  Activate([M EXCEPT !.idle_timer = 0, !.idle_index = index],
                               idle_cycle[index + 1])

\* ModuleManager._advance_idle(dt)
AdvanceIdle(M, dt) ==
    IF idle_cycle = <<>> THEN M
    ELSE IF M.current_screen \notin SeqSet(idle_cycle)
    THEN [Activate([M EXCEPT !.idle_index = 0], idle_cycle[1]) EXCEPT !.idle_timer = 0]
    ELSE LET timer == M.idle_timer + dt
         IN  IF timer < idle_dwell THEN [M EXCEPT !.idle_timer = timer]
             ELSE LET index == (M.idle_index + 1) % Len(idle_cycle)
                  IN  Activate([M EXCEPT !.idle_timer = 0, !.idle_index = index],
                               idle_cycle[index + 1])

\* ScreenModule.bind followed by lines 184-185 of register
RegisterModule(M, name) ==
    LET M1 == Call([M EXCEPT !.bound[name] = TRUE], "on_load", name)
    IN  [M1 EXCEPT !.active[name] = FALSE, !.modules = Append(@, name)]

\* unbind() without the try/finally: when on_unload raises the fields stay set
UnbindNoFinally(M, name, raises) ==
    LET M1 == Call(M, "on_unload", name)
    IN  IF raises THEN [M1 EXCEPT !.raised = TRUE]
        ELSE [M1 EXCEPT !.active[name] = FALSE, !.bound[name] = FALSE]

\* ScreenModule.unbind(); `raises` is whether on_unload raises (the exception
\* leaves unbind after the finally block has run)
Unbind(M, name, raises) ==
    LET M1 == Call(M, "on_unload", name)
    IN  [M1 EXCEPT !.active[name] = FALSE, !.bound[name] = FALSE,
                   !.raised = raises]

\* ModuleManager.unregister(name); `raises` is whether the module's on_unload raises
UnregisterModule(M, name, raises) ==
    IF ~Registered(M, name) THEN M
    ELSE LET M1 == Unbind([M EXCEPT !.modules = SeqRemove(@, name)], name, raises)
         IN  IF raises THEN M1
             ELSE [M1 EXCEPT !.states = DictPop(@, name),
                             !.current_screen = IF @ = name THEN NoScreen ELSE @]

RECURSIVE ShutdownFrom(_, _, _, _)
\* ModuleManager.shutdown(): the loop over list(self._modules.keys()) from
\* position i on; an exception leaving unregister ends the loop
ShutdownFrom(M, names, i, raisers) ==
    IF i > Len(names) \/ M.raised THEN M
    ELSE ShutdownFrom(UnregisterModule(M, names[i], names[i] \in raisers),
                      names, i + 1, raisers)

\* report_state that merges: an argument left out keeps the value of the
\* record already stored for the module
StoreStateMerge(M, r) ==
    LET old == IF r.module \in DOMAIN M.states THEN M.states[r.module]
               ELSE ModuleState(r.state, {}, NoneV, NoneV, now)
    IN  [M EXCEPT !.states = DictSet(@, r.module,
            ModuleState(r.state,
                        IF IsNone(r.metadata) THEN old.metadata ELSE Val(r.metadata),
                        IF IsNone(r.weight) THEN old.weight_override ELSE r.weight,
                        IF IsNone(r.expires_in) THEN old.expires_in ELSE r.expires_in,
                        now))]

\* ModuleManager.report_state(module, state, metadata=, weight=, expires_in=)
StoreState(M, r) ==
    [M EXCEPT !.states = DictSet(@, r.module,
                                 ModuleState(r.state,
                                             IF IsNone(r.metadata) THEN {} ELSE Val(r.metadata),
                                             r.weight, r.expires_in, now))]

\* ModuleManager.clear_state(module)
DropState(M, name) == [M EXCEPT !.states = DictPop(@, name)]

\* the arguments ScreenModule.report_state hands to the manager (lines 151-157)
Forwarded(name, r) ==
    [module |-> name, state |-> Val(r.state),
     metadata |-> Some(IF IsNone(r.metadata) THEN {} ELSE Val(r.metadata)),
     weight |-> r.weight, expires_in |-> r.expires_in]

\* ScreenModule.report_state without the checks of lines 144-147: an unbound
\* module's report still reaches the store under the name it last had
ModuleReportUnchecked(M, name, r) ==
    IF IsNone(r.state) THEN DropState(M, name)
    ELSE StoreState(M, Forwarded(name, r))

\* ScreenModule.report_state(state, ...) called on the module object of `name`;
\* r.state is NoneV for state = None
ModuleReport(M, name, r) ==
    IF ~M.bound[name] THEN [M EXCEPT !.raised = TRUE]
    ELSE IF IsNone(r.state) THEN DropState(M, name)
    ELSE StoreState(M, Forwarded(name, r))

\* lines 222-225 of update: the names whose state is expired
ExpiredNames(sts) == {m \in DOMAIN sts : IsExpired(sts[m], now, state_timeout)}

\* the same lines, the expired states removed
Expire(M) ==
    [M EXCEPT !.states = [m \in (DOMAIN @) \ ExpiredNames(@) |-> @[m]]]

RECURSIVE TickModules(_, _, _)
\* lines 227-228 of update: module.update(dt) of every registered module, in
\* registry order; `tick` is what one module does to the state store in its update
TickModules(M, i, tick) ==
    IF i > Len(M.modules) THEN M
    ELSE LET name == M.modules[i]
             M1 == Call(M, "update", name)
             M2 == IF tick.kind = "report" /\ tick.module = name
                      THEN StoreState(M1, tick)
                   ELSE IF tick.kind = "clear" /\ tick.module = name
                      THEN DropState(M1, name)
                   ELSE M1
         IN  TickModules(M2, i + 1, tick)

\* lines 230-236 of update with the idle cycle taken when the resolved screen
\* is not a registered module
ActOnTargetOrIdle(M, target, dt) ==
    IF target # NoScreen /\ Registered(M, target)
    THEN [(IF target # M.current_screen THEN Activate(M, target) ELSE M)
            EXCEPT !.idle_timer = 0]
    ELSE AdvanceIdle(M, dt)

\* lines 230-236 of update
ActOnTarget(M, target, dt) ==
    IF target # NoScreen
    THEN [(IF target # M.current_screen THEN Activate(M, target) ELSE M)
            EXCEPT !.idle_timer = 0]
    ELSE AdvanceIdle(M, dt)

\* update(dt) with the rules resolved before the modules are ticked (lines
\* 227-228 and 230 exchanged)
UpdateMgrResolveFirst(M, dt, tick) ==
    LET M1 == Expire([M EXCEPT !.dt = dt])
        target == ResolvePriority(rules, M1.states)
    IN  ActOnTarget(TickModules(M1, 1, tick), target, dt)

\* ModuleManager.update(dt)
UpdateMgr(M, dt, tick) ==
    LET M2 == TickModules(Expire([M EXCEPT !.dt = dt]), 1, tick)
    IN  ActOnTarget(M2, ResolvePriority(rules, M2.states), dt)

\* set_active(name) that defers to the rules: it activates the screen the rules
\* resolve to when there is one (the override not bypassing resolution)
SetActiveByRules(M, name) ==
    LET target == ResolvePriority(rules, M.states)
    IN  Activate([M EXCEPT !.idle_timer = 0], IF target # NoScreen THEN target ELSE name)

\* ModuleManager.set_active(name)
SetActiveMgr(M, name) == Activate([M EXCEPT !.idle_timer = 0], name)

RECURSIVE CallAll(_, _, _)
\* `method` invoked on every registered module from position i on
CallAll(M, method, i) ==
    IF i > Len(M.modules) THEN M
    ELSE CallAll(Call(M, method, M.modules[i]), method, i + 1)

\* render / handle_event that reach every registered module instead of the
\* active one
DelegateToAll(M, method) == CallAll(M, method, 1)

\* ModuleManager.render(surface) / handle_event(event): `method` is the
\* module method delegated to
Delegate(M, method) ==
    IF M.current_screen = NoScreen THEN M
    ELSE IF ~Registered(M, M.current_screen) THEN M
    ELSE Call(M, method, M.current_screen)

----------------------------------------------------------------------------
\* Configuration and inputs

\* DEFAULT_PRIORITIES["rules"] as _load_priority_config stores them
DefaultRules ==
    << PriorityRule("camera", {"danger", "warning"}, 100, "camera"),
       PriorityRule("radar", {"air-traffic"}, 80, "radar") >>

\* DEFAULT_PRIORITIES["timeout_seconds"]
DefaultTimeout == 15

\* DEFAULT_PRIORITIES["idle"]["dwell_seconds"]
DefaultDwell == 20

\* DEFAULT_PRIORITIES["idle"]["cycle"], filtered by __init__ to the registered names
DefaultCycle == << "camera", "neo_tracker" >>

\* the order in which __init__ registers the modules
InitialModules == << "camera", "radar", "neo_tracker" >>

\* the values time.monotonic() takes
ClockValues == {0, 10, 15, 20}

\* the dt values the host loop passes to update
DtValues == {0, 10, 20}

\* the report_state calls made by modules and by the host
ReportInputs ==
    { [module |-> "camera", state |-> "warning", metadata |-> NoneV, weight |-> NoneV, expires_in |-> NoneV],
      [module |-> "camera", state |-> "danger", metadata |-> NoneV, weight |-> NoneV, expires_in |-> Some(10)],
      [module |-> "camera", state |-> "info", metadata |-> NoneV, weight |-> NoneV, expires_in |-> Some(-5)],
      [module |-> "radar", state |-> "air-traffic", metadata |-> NoneV, weight |-> NoneV, expires_in |-> NoneV],
      [module |-> "radar", state |-> "air-traffic", metadata |-> NoneV, weight |-> Some(110), expires_in |-> Some(0)] }

NoTick == [kind |-> "none"]

\* what a module's own update(dt) may do to the state store: nothing, report, clear
TickEffects(regs) ==
    {NoTick}
    \cup {[kind |-> "report", module |-> r.module, state |-> r.state,
           metadata |-> r.metadata, weight |-> r.weight, expires_in |-> r.expires_in] :
              r \in {x \in ReportInputs : x.module \in regs}}
    \cup {[kind |-> "clear", module |-> m] : m \in regs \cap {"camera", "radar"}}

\* the module that reports or clears in its update, if any
TickName(tick) == IF tick.kind = "none" THEN NoScreen ELSE tick.module

NotInUpdate == [pc |-> "idle"]

\* EventBus.__init__: no handler, the lock free, no publish in progress
NewBus == [handlers |-> << >>, lock |-> 0, stack |-> << >>, did |-> [op |-> "new"]]

\* ServiceManager.__init__: no instance.  made counts the instances ever
\* constructed, created and started hold the names whose class was instantiated
\* and whose start() was called since the last stop_all, one entry per call
NewServices ==
    [instances |-> << >>, made |-> 0, created |-> << >>, started |-> << >>,
     raised |-> FALSE, did |-> [op |-> "new"]]

\* no unregister and no report_state of a module in progress: `u` and `r` are
\* the positions of the two calls, `named` whether the module's name field is
\* set, `key` the name the report has read
NewRace == [u |-> "idle", r |-> "idle", named |-> TRUE, key |-> NoScreen]

\* the bus and the service manager as constructed; the rules not loaded from a
\* raw mapping; the manager constructed; no call in progress
RestInit ==
    /\ bus = NewBus
    /\ svc = NewServices
    /\ raw_config = NoneV
    /\ ctor = NoneV
    /\ race = NewRace

----------------------------------------------------------------------------
\* Operations

\* the history record of an operation
Done(op, name, M, expired) ==
    [op |-> op, name |-> name, calls |-> M.calls, ctx |-> M.ctx, dt |-> M.dt,
     raised |-> M.raised, expired |-> expired]

\* the manager's fields after an operation
Install(M) ==
    /\ modules' = M.modules
    /\ active' = M.active
    /\ bound' = M.bound
    /\ states' = M.states
    /\ current_screen' = M.current_screen
    /\ idle_index' = M.idle_index
    /\ idle_timer' = M.idle_timer
    /\ app_screen' = M.app_screen

Config == <<rules, idle_cycle, idle_dwell, state_timeout>>

\* register(name, module) that binds the module before it looks the name up:
\* a duplicate still raises, after on_load has run and active has been reset
RegisterBindFirst(name) ==
    /\ upd.pc = "idle"
    /\ LET B == [Call([Mgr EXCEPT !.bound[name] = TRUE], "on_load", name)
                   EXCEPT !.active[name] = FALSE]
           M == IF Registered(Mgr, name) THEN [B EXCEPT !.raised = TRUE]
                ELSE [B EXCEPT !.modules = Append(@, name)]
       IN  Install(M) /\ last' = Done("register", name, M, {})
    /\ UNCHANGED <<Config, now, elapsed, exact, upd, Rest>>

\* register(name, module): ValueError when the name is taken
Register(name) ==
    /\ upd.pc = "idle"
    /\ LET M == IF Registered(Mgr, name) THEN [Mgr EXCEPT !.raised = TRUE]
                ELSE RegisterModule(Mgr, name)
       IN  Install(M) /\ last' = Done("register", name, M, {})
    /\ UNCHANGED <<Config, now, elapsed, exact, upd, Rest>>

\* unregister(name), on_unload returning normally
Unregister(name) ==
    /\ upd.pc = "idle"
    /\ LET M == UnregisterModule(Mgr, name, FALSE)
       IN  Install(M) /\ last' = Done("unregister", name, M, {})
    /\ UNCHANGED <<Config, now, elapsed, exact, upd, Rest>>

\* unregister(name) of a module whose on_unload raises
UnregisterRaising(name) ==
    /\ upd.pc = "idle"
    /\ Registered(Mgr, name)
    /\ LET M == UnregisterModule(Mgr, name, TRUE)
       IN  Install(M) /\ last' = Done("unregister", name, M, {})
    /\ UNCHANGED <<Config, now, elapsed, exact, upd, Rest>>

\* shutdown(), every on_unload returning normally
Shutdown ==
    /\ upd.pc = "idle"
    /\ LET M == ShutdownFrom(Mgr, modules, 1, {})
       IN  Install(M) /\ last' = Done("shutdown", NoScreen, M, {})
    /\ UNCHANGED <<Config, now, elapsed, exact, upd, Rest>>

\* shutdown() with the on_unload of the modules in `raisers` raising
ShutdownRaising(raisers) ==
    /\ upd.pc = "idle"
    /\ raisers \cap SeqSet(modules) # {}
    /\ LET M == ShutdownFrom(Mgr, modules, 1, raisers)
       IN  Install(M) /\ last' = Done("shutdown", NoScreen, M, {})
    /\ UNCHANGED <<Config, now, elapsed, exact, upd, Rest>>

\* report_state(module, state, weight=, expires_in=)
ReportState(r) ==
    /\ LET M == StoreState(Mgr, r)
       IN  Install(M) /\ last' = Done("report_state", r.module, M, {})
    /\ UNCHANGED <<Config, now, elapsed, exact, upd, Rest>>

\* module.report_state(state, ...) of the module object of `name`
ModuleReportState(name, r) ==
    /\ upd.pc = "idle"
    /\ LET M == ModuleReport(Mgr, name, r)
       IN  /\ Install(M)
           /\ last' = Done(IF IsNone(r.state) THEN "module.report_state(None)"
                           ELSE "module.report_state", name, M, {})
    /\ UNCHANGED <<Config, now, elapsed, exact, upd, Rest>>

\* clear_state(module)
ClearState(name) ==
    /\ LET M == DropState(Mgr, name)
       IN  Install(M) /\ last' = Done("clear_state", name, M, {})
    /\ UNCHANGED <<Config, now, elapsed, exact, upd, Rest>>

\* set_active(name)
SetActive(name) ==
    /\ upd.pc = "idle"
    /\ LET M == SetActiveMgr(Mgr, name)
       IN  Install(M) /\ last' = Done("set_active", name, M, {})
    /\ UNCHANGED <<Config, now, elapsed, exact, upd, Rest>>

\* update(dt), run without interruption; the history names the module that
\* reported or cleared in its own update, and the names the expiry step dropped
Update(dt, tick) ==
    /\ upd.pc = "idle"
    /\ \E M \in {UpdateMgr(Mgr, dt, tick)} :
           /\ Install(M)
           /\ last' = Done("update", TickName(tick), M, ExpiredNames(states))
    /\ UNCHANGED <<Config, now, upd, Rest>>

\* render(surface)
Render ==
    /\ upd.pc = "idle"
    /\ LET M == Delegate(Mgr, "render")
       IN  Install(M) /\ last' = Done("render", NoScreen, M, {})
    /\ UNCHANGED <<Config, now, elapsed, exact, upd, Rest>>

\* handle_event(event)
HandleEvent ==
    /\ upd.pc = "idle"
    /\ LET M == Delegate(Mgr, "handle_event")
       IN  Install(M) /\ last' = Done("handle_event", NoScreen, M, {})
    /\ UNCHANGED <<Config, now, elapsed, exact, upd, Rest>>

\* the monotonic clock moves on
ClockTick ==
    /\ \E t \in ClockValues : t > now /\ now' = t
    /\ last' = [op |-> "clock", name |-> NoScreen, calls |-> <<>>, ctx |-> <<>>,
                dt |-> 0, raised |-> FALSE, expired |-> {}]
    /\ UNCHANGED <<modules, active, bound, Rest, states, Config, idle_index, idle_timer,
                   current_screen, app_screen, elapsed, exact, upd>>

----------------------------------------------------------------------------
\* The manager in operation: constructed from the default configuration with
\* three modules, then driven by the host loop, the modules and the clock.

Constructed ==
    [op |-> "init", name |-> NoScreen, calls |-> <<>>, ctx |-> <<>>,
     dt |-> 0, raised |-> FALSE, expired |-> {}]

Init ==
    /\ modules = InitialModules
    /\ active = [n \in Names |-> FALSE]
    /\ states = << >>
    /\ rules = DefaultRules
    /\ idle_cycle = DefaultCycle
    /\ idle_index = 0
    /\ idle_timer = 0
    /\ idle_dwell = DefaultDwell
    /\ state_timeout = DefaultTimeout
    /\ current_screen = NoScreen
    /\ app_screen = NoScreen
    /\ now = 0
    /\ last = Constructed
    /\ elapsed = 0
    /\ exact = TRUE
    /\ upd = NotInUpdate
    /\ bound = [n \in Names |-> TRUE]
    /\ RestInit

\* update(dt) by the host loop; a module may report or clear in its own update
MainUpdate ==
    \E dt \in DtValues : \E tick \in TickEffects(SeqSet(modules)) :
        Update(dt, tick) /\ UNCHANGED <<elapsed, exact>>

Next ==
    \/ \E r \in ReportInputs : ReportState(r)
    \/ \E name \in {"camera", "radar"} : ClearState(name)
    \/ \E name \in Names : SetActive(name)
    \/ MainUpdate
    \/ ClockTick

Spec == Init /\ [][Next]_vars

----------------------------------------------------------------------------
\* The registry in operation: modules come and go while the manager runs.
\* The clock stands still here, so no state expires.

LifeReports == {r \in ReportInputs : IsNone(r.expires_in)}

LifeDtValues == {0, 10, 20}

LifeUpdate ==
    \E dt \in LifeDtValues : Update(dt, NoTick) /\ UNCHANGED <<elapsed, exact>>

NextLife ==
    \/ \E name \in Names : Register(name)
    \/ \E name \in Names : Unregister(name)
    \/ Shutdown
    \/ \E r \in LifeReports : ReportState(r)
    \/ \E name \in {"camera", "radar"} : ClearState(name)
    \/ \E name \in Names : SetActive(name)
    \/ LifeUpdate
    \/ Render
    \/ HandleEvent

SpecLife == Init /\ [][NextLife]_vars

\* the same, with modules whose on_unload may raise
NextFaulty ==
    \/ NextLife
    \/ \E name \in Names : UnregisterRaising(name)
    \/ \E raisers \in SUBSET Names : ShutdownRaising(raisers)

SpecFaulty == Init /\ [][NextFaulty]_vars

----------------------------------------------------------------------------
\* Priority resolution on its own: _resolve_priority applied to rule lists and
\* state stores drawn from bounded sets.

MaxRules == 3

\* the rules a configuration may list: the two default rules, a wildcard rule
\* that ties with the first, a rule that ties with the second and names another
\* screen, and a rule above both
RuleChoices ==
    { PriorityRule("camera", {"danger", "warning"}, 100, "camera"),
      PriorityRule("radar", {"air-traffic"}, 80, "radar"),
      PriorityRule("radar", {}, 100, "radar"),
      PriorityRule("camera", {}, 80, "neo_tracker"),
      PriorityRule("camera", {"danger"}, 120, "neo_tracker") }

RuleLists == UNION {[1..n -> RuleChoices] : n \in 0..MaxRules}

\* what a module may have in the store: label and weight override
StoredChoices(name) ==
    IF name = "camera"
    THEN {ModuleState("warning", {}, NoneV, NoneV, 0), ModuleState("danger", {}, NoneV, NoneV, 0),
          ModuleState("info", {}, NoneV, NoneV, 0), ModuleState("warning", {}, Some(70), NoneV, 0),
          ModuleState("danger", {}, Some(90), NoneV, 0)}
    ELSE {ModuleState("air-traffic", {}, NoneV, NoneV, 0), ModuleState("taxi", {}, NoneV, NoneV, 0),
          ModuleState("air-traffic", {}, Some(110), NoneV, 0),
          ModuleState("air-traffic", {}, Some(100), NoneV, 0)}

StoreChoices ==
    UNION {[D -> UNION {StoredChoices(n) : n \in D}] : D \in SUBSET {"camera", "radar"}}

WellFormedStore(sts) == \A n \in DOMAIN sts : sts[n] \in StoredChoices(n)

\* the registry's insertion order reversed
Reverse(s) == [i \in 1..Len(s) |-> s[Len(s) + 1 - i]]

InitResolve ==
    /\ modules \in {InitialModules, Reverse(InitialModules)}
    /\ active = [n \in Names |-> FALSE]
    /\ states \in {sts \in StoreChoices : WellFormedStore(sts)}
    /\ rules \in RuleLists
    /\ idle_cycle = DefaultCycle
    /\ idle_index = 0
    /\ idle_timer = 0
    /\ idle_dwell = DefaultDwell
    /\ state_timeout = DefaultTimeout
    /\ current_screen = NoScreen
    /\ app_screen = NoScreen
    /\ now = 0
    /\ last = Constructed
    /\ elapsed = 0
    /\ exact = TRUE
    /\ upd = NotInUpdate
    /\ bound = [n \in Names |-> TRUE]
    /\ RestInit

\* _resolve_priority(): the screen it returns is recorded in last.name
Resolve ==
    /\ last.op = "init"
    /\ last' = [op |-> "resolve", name |-> ResolvePriority(rules, states),
                calls |-> <<>>, ctx |-> <<>>, dt |-> 0, raised |-> FALSE,
                expired |-> {}]
    /\ UNCHANGED <<modules, active, bound, Rest, states, Config, idle_index, idle_timer,
                   current_screen, app_screen, now, elapsed, exact, upd>>


SpecResolve == InitResolve /\ [][Resolve]_vars

----------------------------------------------------------------------------
\* Properties of priority resolution

\* rule i matches: its module has a stored state, and the rule's state set is
\* empty or contains the state's label
Matching(i) ==
    /\ rules[i].module \in DOMAIN states
    /\ \/ rules[i].states = {}
       \/ states[rules[i].module].state \in rules[i].states

MatchingRules == {i \in 1..Len(rules) : Matching(i)}

\* the weight a matching rule competes with
Weight(i) ==
    LET st == states[rules[i].module]
    IN  IF st.weight_override = NoneV THEN rules[i].weight ELSE st.weight_override[1]

\* the greatest weight first, the earliest rule among equals
Winner ==
    CHOOSE i \in MatchingRules :
        \A j \in MatchingRules : Weight(j) < Weight(i) \/ (Weight(j) = Weight(i) /\ i <= j)

\* C1: priority resolution returns the screen of the matching rule with the
\* greatest effective weight, the earliest declared among the rules that share
\* that weight, and none when no rule matches; the registry's order plays no part.
C1_FirstGreatestWins ==
    last.op = "resolve" =>
        last.name = (IF MatchingRules = {} THEN NoScreen ELSE rules[Winner].screen)

\* C1 witness: two matching rules of equal greatest weight that name different
\* screens have been resolved, and the earlier one has won.
C1_Witness ==
    /\ last.op = "resolve"
    /\ \E i, j \in MatchingRules :
          /\ i < j
          /\ Weight(i) = Weight(j)
          /\ rules[i].screen # rules[j].screen
          /\ \A k \in MatchingRules : Weight(k) <= Weight(i)
          /\ last.name = rules[i].screen

\* the matching rules other than i that name the same screen as rule i
SameScreen(i) == {k \in MatchingRules \ {i} : rules[k].screen = rules[i].screen}

\* C6: a weight override on the stored state replaces the static weight of the
\* matching rule: such a rule loses to any matching rule whose weight is above
\* the override, and beats any matching rule whose weight is below it, whatever
\* the static weights are.
C6_OverrideReplacesWeight ==
    last.op = "resolve" =>
        \A i \in MatchingRules : \A j \in MatchingRules :
            LET st == states[rules[i].module]
            IN  st.weight_override # NoneV =>
                  /\ (st.weight_override[1] < Weight(j) /\ SameScreen(i) = {})
                        => last.name # rules[i].screen
                  /\ (st.weight_override[1] > Weight(j) /\ SameScreen(j) = {})
                        => last.name # rules[j].screen

\* C6 witness: a rule of static weight 100 whose state carries the override 70
\* has lost to a rule of weight 80.
C6_Witness ==
    /\ last.op = "resolve"
    /\ \E i, j \in MatchingRules :
          LET st == states[rules[i].module]
          IN  /\ st.weight_override # NoneV
              /\ st.weight_override[1] < rules[j].weight
              /\ rules[j].weight < rules[i].weight
              /\ states[rules[j].module].weight_override = NoneV
              /\ rules[i].screen # rules[j].screen
              /\ last.name = rules[j].screen

----------------------------------------------------------------------------
\* Properties of expiry (specification Spec)

\* the timeout that applies to a stored state
Timeout(st) == IF st.expires_in = NoneV THEN state_timeout ELSE st.expires_in[1]

\* now - timestamp
Age(st) == now - st.timestamp

\* the step is an update in which module m did not report or clear
UpdateWithout(m) == last'.op = "update" /\ last'.name # m

\* C2 as stated: every stored state whose elapsed time is strictly greater than
\* its effective timeout is removed by the next update.
C2_Original ==
    [][\A m \in DOMAIN states :
          (UpdateWithout(m) /\ Age(states[m]) > Timeout(states[m]))
              => m \notin DOMAIN states']_vars

\* C2 amended: a stored state whose effective timeout is positive and whose
\* elapsed time is strictly greater than it is removed by the next update before
\* the rules are resolved (the update settles on the screen resolved from the
\* store without it); a name enters the store only by a report of that module;
\* a state whose elapsed time is equal to or below the timeout, or whose
\* effective timeout is zero or negative, is kept.
C2_ExpiredStateDropped ==
    [][/\ \A m \in DOMAIN states :
             UpdateWithout(m) =>
                 IF Timeout(states[m]) > 0 /\ Age(states[m]) > Timeout(states[m])
                 THEN m \notin DOMAIN states'
                 ELSE m \in DOMAIN states' /\ states'[m] = states[m]
       /\ last'.op = "update" =>
             LET target == ResolvePriority(rules, states')
             IN  target # NoScreen => current_screen' = target
       /\ \A m \in (DOMAIN states') \ (DOMAIN states) :
             last'.op \in {"report_state", "update"} /\ last'.name = m]_vars

\* C2 witness: an update has dropped camera's state, 15 s old with expires_in 10,
\* and kept radar's, exactly as old as the default timeout.
C2_Witness ==
    /\ last.op = "update"
    /\ last.expired = {"camera"}
    /\ "camera" \notin DOMAIN states
    /\ "radar" \in DOMAIN states
    /\ states["radar"].expires_in = NoneV
    /\ now - states["radar"].timestamp = state_timeout

\* name has a stored state with this label, no weight override and no expires_in
Plain(name, label) ==
    /\ name \in DOMAIN states
    /\ states[name] = ModuleState(label, {}, NoneV, NoneV, states[name].timestamp)

----------------------------------------------------------------------------
\* Properties of activation and of the registry (specifications SpecLife and
\* SpecFaulty)

\* how many times the last operation invoked `method` on module name
Invoked(h, method, name) ==
    Cardinality({k \in 1..Len(h.calls) : h.calls[k] = <<method, name>>})

\* the last operation invoked on_show or on_hide on some module
FiredHook(h) ==
    \E k \in 1..Len(h.calls) : h.calls[k][1] \in {"on_show", "on_hide"}

\* C4 as stated: an operation that leaves the active screen what it was (a
\* second set_active(X), a rule resolving to the current screen, an idle advance
\* landing on the current screen) calls no on_hide and no on_show.
C4_Original ==
    [][current_screen' = current_screen => ~FiredHook(last')]_vars

\* C9 as stated: a module receives on_show exactly once each time it becomes the
\* active screen and on_hide exactly once each time it stops being the active
\* screen, unregistration and shutdown included.
C9_Original ==
    [][\A m \in Names :
          /\ (current_screen # m /\ current_screen' = m)
                => Invoked(last', "on_show", m) = 1
          /\ (current_screen = m /\ active[m] /\ (current_screen' # m \/ ~active'[m]))
                => Invoked(last', "on_hide", m) = 1]_vars

\* C8 as stated: after unregister(name) of the active screen current_screen is
\* unset, and while it is unset render and handle_event invoke nothing.
C8_Original ==
    [][/\ (last'.op = "unregister" /\ last'.name = current_screen)
            => current_screen' = NoScreen
       /\ (last'.op \in {"render", "handle_event"} /\ current_screen = NoScreen)
            => last'.calls = <<>>]_vars

\* C10 as stated: when on_unload raises, unregister(name) still removes the
\* module from the registry, drops its stored state and clears current_screen if
\* it was the active screen, and shutdown() still unregisters every module.
C10_Original ==
    [][last'.raised =>
          /\ last'.op = "unregister" =>
                /\ last'.name \notin SeqSet(modules')
                /\ last'.name \notin DOMAIN states'
                /\ current_screen = last'.name => current_screen' = NoScreen
          /\ last'.op = "shutdown" => modules' = <<>>]_vars

----------------------------------------------------------------------------
\* Idle cycling on its own: no rules, an idle cycle of registered modules, the
\* first entry active (set_active(cycle[0]) after construction, as the host does).

\* the updates' dt values sum to at most MaxDwells dwell times of 20 s
MaxDwells == 3

\* the idle cycles: every list of distinct registered names
IdleCycles ==
    {c \in UNION {[1..n -> Names] : n \in 1..3} :
        \A i, j \in 1..Len(c) : i # j => c[i] # c[j]}

IdleDwells == {10, 20}

IdleDtValues == {0, 5, 10, 15, 20, 25}

InitIdle ==
    /\ modules = InitialModules
    /\ idle_cycle \in IdleCycles
    /\ active = [n \in Names |-> n = idle_cycle[1]]
    /\ states = << >>
    /\ rules = << >>
    /\ idle_index = 0
    /\ idle_timer = 0
    /\ idle_dwell \in IdleDwells
    /\ state_timeout = DefaultTimeout
    /\ current_screen = idle_cycle[1]
    /\ app_screen = idle_cycle[1]
    /\ now = 0
    /\ last = [op |-> "set_active", name |-> idle_cycle[1],
               calls |-> << <<"on_show", idle_cycle[1]>> >>,
               ctx |-> << [screen |-> idle_cycle[1], active |-> TRUE] >>,
               dt |-> 0, raised |-> FALSE, expired |-> {}]
    /\ elapsed = 0
    /\ exact = TRUE
    /\ upd = NotInUpdate
    /\ bound = [n \in Names |-> TRUE]
    /\ RestInit

\* update(dt) with the history of the dt values: their sum, and whether every
\* idle advance so far found the timer exactly at the dwell time
IdleUpdate ==
    \E dt \in IdleDtValues :
        /\ elapsed + dt <= MaxDwells * 20
        /\ Update(dt, NoTick)
        /\ elapsed' = elapsed + dt
        /\ exact' = (exact /\ (idle_timer + dt >= idle_dwell => idle_timer + dt = idle_dwell))


SpecIdle == InitIdle /\ [][IdleUpdate]_vars

----------------------------------------------------------------------------
\* update() interleaved with report_state and clear_state of other threads.
\* The manager takes no lock, so the owning thread can be preempted between the
\* steps of update(): reading the clock, each step of the iteration over
\* self._states.items() in the list comprehension of line 223, each pop of line
\* 225, and the rest of the frame.  A dict iterator raises RuntimeError when the
\* dict's size differs from the size at the iterator's creation.

\* line 222 and the creation of the iterator of line 223
UpdBegin ==
    /\ upd.pc = "idle"
    /\ upd' = [pc |-> "iter", now |-> now, size |-> Cardinality(DOMAIN states),
               seen |-> {}, expired |-> <<>>, judged |-> << >>, lost |-> {}]
    /\ UNCHANGED <<modules, active, bound, Rest, states, Config, idle_index, idle_timer,
                   current_screen, app_screen, now, last, elapsed, exact>>

\* one step of the iterator of line 223, with is_expired of the item it yields
UpdIterNext ==
    /\ upd.pc = "iter"
    /\ \/ /\ Cardinality(DOMAIN states) # upd.size
          /\ upd' = NotInUpdate
          /\ last' = [op |-> "update", name |-> NoScreen, calls |-> <<>>,
                      ctx |-> <<>>, dt |-> 0, raised |-> TRUE, expired |-> {}]
       \/ /\ Cardinality(DOMAIN states) = upd.size
          /\ (DOMAIN states) \ upd.seen = {}
          /\ upd' = [upd EXCEPT !.pc = "pop"]
          /\ UNCHANGED last
       \/ /\ Cardinality(DOMAIN states) = upd.size
          /\ \E m \in (DOMAIN states) \ upd.seen :
                upd' = IF IsExpired(states[m], upd.now, state_timeout)
                       THEN [upd EXCEPT !.seen = @ \cup {m},
                                        !.expired = Append(@, m),
                                        !.judged = DictSet(@, m, states[m])]
                       ELSE [upd EXCEPT !.seen = @ \cup {m}]
          /\ UNCHANGED last
    /\ UNCHANGED <<modules, active, bound, Rest, states, Config, idle_index, idle_timer,
                   current_screen, app_screen, now, elapsed, exact>>

\* one iteration of the loop of lines 224-225; upd.lost collects the names whose
\* record at the time of the pop was not the record is_expired had judged
UpdPop ==
    /\ upd.pc = "pop"
    /\ IF upd.expired = <<>>
       THEN upd' = [upd EXCEPT !.pc = "rest"] /\ UNCHANGED states
       ELSE LET name == Head(upd.expired)
            IN  /\ states' = DictPop(states, name)
                /\ upd' = [upd EXCEPT !.expired = Tail(@),
                              !.lost = IF name \in DOMAIN states
                                          /\ states[name] # upd.judged[name]
                                       THEN @ \cup {name} ELSE @]
    /\ UNCHANGED <<modules, active, bound, Rest, Config, idle_index, idle_timer,
                   current_screen, app_screen, now, last, elapsed, exact>>

\* lines 227-236 of update
UpdRest ==
    /\ upd.pc = "rest"
    /\ \E dt \in LifeDtValues :
          LET M2 == TickModules([Mgr EXCEPT !.dt = dt], 1, NoTick)
              M == ActOnTarget(M2, ResolvePriority(rules, M2.states), dt)
          IN  Install(M) /\ last' = Done("update", NoScreen, M, DOMAIN upd.judged)
    /\ upd' = NotInUpdate
    /\ UNCHANGED <<Config, now, elapsed, exact, Rest>>

NextConc ==
    \/ UpdBegin
    \/ UpdIterNext
    \/ UpdPop
    \/ UpdRest
    \/ \E r \in LifeReports : ReportState(r)
    \/ \E name \in {"camera", "radar"} : ClearState(name)
    \/ ClockTick

SpecConc == Init /\ [][NextConc]_vars

\* C5 as stated: with report_state and clear_state running on other threads,
\* update() completes without error, and its expiry step never deletes a record
\* other than the one it judged stale (a fresh report is not deleted).
C5_Original ==
    /\ ~(last.op = "update" /\ last.raised)
    /\ upd.pc \in {"pop", "rest"} => upd.lost = {}

----------------------------------------------------------------------------
\* Properties of the idle fallback, of re-registration and of activation
\* (specifications SpecLife and SpecFaulty)

\* the positions of the idle cycle that hold a registered module
ValidEntries == {i \in 1..Len(idle_cycle) : idle_cycle[i] \in SeqSet(modules)}

\* the first of them
FirstValid == CHOOSE i \in ValidEntries : \A j \in ValidEntries : i <= j

\* C11 as stated: an update in which no rule matches and that finds
\* current_screen outside the idle cycle activates the first entry of the cycle
\* that is a registered module, if there is one, and resets the idle timer to 0.
C11_Original ==
    [][(/\ last'.op = "update"
        /\ ResolvePriority(rules, states') = NoScreen
        /\ current_screen \notin SeqSet(idle_cycle)
        /\ ValidEntries # {})
          => /\ current_screen' = idle_cycle[FirstValid]
             /\ active'[idle_cycle[FirstValid]]
             /\ idle_timer' = 0]_vars

\* C12 as stated: unregister(name) of a registered module removes it and
\* leaves no stored state for name, whatever the module had reported; a
\* register(name, m2) that follows succeeds: name is registered again, on_load
\* has been called exactly once (on m2), m2.active is false, and the store is as
\* unregister left it, so it holds nothing for name that the first module left.
C12_Original ==
    [][/\ (last'.op = "unregister" /\ Registered(Mgr, last'.name))
            => /\ last'.name \notin SeqSet(modules')
               /\ last'.name \notin DOMAIN states'
       /\ (last'.op = "register" /\ ~Registered(Mgr, last'.name))
            => /\ ~last'.raised
               /\ last'.name \in SeqSet(modules')
               /\ last'.calls = << <<"on_load", last'.name>> >>
               /\ ~active'[last'.name]
               /\ states' = states]_vars

\* C13: an operation that activates a registered module Y while a different
\* module X is the active screen first sets X.active false and calls X.on_hide
\* (current_screen still naming X), then sets current_screen to Y, then sets
\* Y.active true and calls Y.on_show, which sees current_screen = Y; each hook
\* is called once, and X.on_hide immediately precedes Y.on_show.
C13_HideThenShow ==
    [][\A k \in 1..Len(last'.calls) :
          LET X == current_screen
              Y == last'.calls[k][2]
          IN  (last'.calls[k][1] = "on_show" /\ X # NoScreen /\ X # Y
                  /\ Registered(Mgr, X))
                => /\ k > 1
                   /\ last'.calls[k - 1] = <<"on_hide", X>>
                   /\ last'.ctx[k - 1] = [screen |-> X, active |-> FALSE]
                   /\ last'.ctx[k] = [screen |-> Y, active |-> TRUE]
                   /\ Invoked(last', "on_hide", X) = 1
                   /\ Invoked(last', "on_show", Y) = 1
                   /\ current_screen' = Y
                   /\ active'[Y]
                   /\ ~active'[X]]_vars

\* C13 witness: an update whose rules resolved to camera while radar was the
\* active screen has hidden radar and then shown camera.
C13_Witness ==
    /\ last.op = "update"
    /\ Len(last.calls) >= 2
    /\ last.calls[Len(last.calls) - 1] = <<"on_hide", "radar">>
    /\ last.calls[Len(last.calls)] = <<"on_show", "camera">>
    /\ last.ctx[Len(last.calls)] = [screen |-> "camera", active |-> TRUE]
    /\ current_screen = "camera"
    /\ ~active["radar"]

\* C14: set_active(name) of a registered name makes name the active screen in
\* that call, whatever the rules resolve to from the stored states, resets the
\* idle timer to 0 and leaves the store alone; the next update() resolves the
\* rules as usual: when they resolve to a registered module, that module is the
\* active screen after the update.
C14_OverrideThenRules ==
    [][/\ (last'.op = "set_active" /\ Registered(Mgr, last'.name))
            => /\ current_screen' = last'.name
               /\ active'[last'.name]
               /\ idle_timer' = 0
               /\ states' = states
       /\ last'.op = "update"
            => LET target == ResolvePriority(rules, states')
               IN  (target # NoScreen /\ Registered(Mgr, target))
                     => /\ current_screen' = target
                        /\ active'[target]
                        /\ idle_timer' = 0]_vars

\* C14 witness: set_active('neo_tracker') has made neo_tracker the active screen
\* while camera's stored warning makes the rules resolve to camera, registered.
C14_Witness ==
    /\ last.op = "set_active"
    /\ last.name = "neo_tracker"
    /\ current_screen = "neo_tracker"
    /\ active["neo_tracker"]
    /\ idle_timer = 0
    /\ Registered(Mgr, "camera")
    /\ ResolvePriority(rules, states) = "camera"
    /\ last.calls = << <<"on_hide", "camera">>, <<"on_show", "neo_tracker">> >>

----------------------------------------------------------------------------
\* The idle cursor under interruptions: every idle cycle of distinct registered
\* names, the default rules, and a host that reports, clears, forces screens
\* and updates.  The clock stands still, so no state expires.

InitCursor ==
    /\ modules = InitialModules
    /\ active = [n \in Names |-> FALSE]
    /\ states = << >>
    /\ rules = DefaultRules
    /\ idle_cycle \in IdleCycles
    /\ idle_index = 0
    /\ idle_timer = 0
    /\ idle_dwell = DefaultDwell
    /\ state_timeout = DefaultTimeout
    /\ current_screen = NoScreen
    /\ app_screen = NoScreen
    /\ now = 0
    /\ last = Constructed
    /\ elapsed = 0
    /\ exact = TRUE
    /\ upd = NotInUpdate
    /\ bound = [n \in Names |-> TRUE]
    /\ RestInit

NextCursor ==
    \/ \E r \in LifeReports : ReportState(r)
    \/ \E name \in {"camera", "radar"} : ClearState(name)
    \/ \E name \in Names : SetActive(name)
    \/ LifeUpdate

SpecCursor == InitCursor /\ [][NextCursor]_vars

\* the position of name in the idle cycle, 0-based
Pos(name) == IndexOf(idle_cycle, name)

\* the last operation called on_show on name
Shown(h, name) == \E k \in 1..Len(h.calls) : h.calls[k] = <<"on_show", name>>

----------------------------------------------------------------------------
\* The state store on its own: reports with and without metadata, weight and
\* expires_in, a default timeout that is positive, zero or negative, and a
\* clock that moves between the calls.

\* the values of timeout_seconds a configuration may set
TimeoutValues == {-5, 0, 15}

\* the report_state calls; a (module, label) pair names one call
StoreInputs ==
    { [module |-> "camera", state |-> "warning", metadata |-> NoneV,
       weight |-> NoneV, expires_in |-> NoneV],
      [module |-> "camera", state |-> "danger", metadata |-> Some({"zone"}),
       weight |-> Some(110), expires_in |-> Some(10)],
      [module |-> "camera", state |-> "info", metadata |-> NoneV,
       weight |-> NoneV, expires_in |-> Some(0)],
      [module |-> "radar", state |-> "air-traffic", metadata |-> Some({"flights"}),
       weight |-> NoneV, expires_in |-> Some(-5)],
      [module |-> "radar", state |-> "taxi", metadata |-> NoneV,
       weight |-> Some(90), expires_in |-> NoneV] }

InitStore ==
    /\ modules = InitialModules
    /\ active = [n \in Names |-> FALSE]
    /\ states = << >>
    /\ rules = DefaultRules
    /\ idle_cycle = DefaultCycle
    /\ idle_index = 0
    /\ idle_timer = 0
    /\ idle_dwell = DefaultDwell
    /\ state_timeout \in TimeoutValues
    /\ current_screen = NoScreen
    /\ app_screen = NoScreen
    /\ now = 0
    /\ last = Constructed
    /\ elapsed = 0
    /\ exact = TRUE
    /\ upd = NotInUpdate
    /\ bound = [n \in Names |-> TRUE]
    /\ RestInit

\* update(dt) in which no module reports or clears
StoreUpdate == Update(0, NoTick) /\ UNCHANGED <<elapsed, exact>>

NextStore ==
    \/ \E r \in StoreInputs : ReportState(r)
    \/ \E name \in {"camera", "radar"} : ClearState(name)
    \/ StoreUpdate
    \/ ClockTick

SpecStore == InitStore /\ [][NextStore]_vars

\* C16: the expiry step of update() never removes a stored state whose
\* effective timeout (expires_in when set, else the default) is zero or
\* negative, whatever its age: the record is still there, unchanged, after the
\* update.
C16_NonPositiveNeverExpires ==
    [][last'.op = "update" =>
          \A m \in DOMAIN states :
              Timeout(states[m]) <= 0
                 => /\ m \in DOMAIN states'
                    /\ states'[m] = states[m]
                    /\ m \notin last'.expired]_vars

\* C16 witness: under a default timeout of 15 s, an update at 20 s has dropped
\* camera's 20 s old state reported without expires_in and kept radar's state
\* of the same age reported with expires_in = -5.
C16_Witness ==
    /\ last.op = "update"
    /\ state_timeout = 15
    /\ now = 20
    /\ last.expired = {"camera"}
    /\ "radar" \in DOMAIN states
    /\ states["radar"].expires_in = Some(-5)
    /\ states["radar"].timestamp = 0

\* the report_state call that carries this label for this module
InputOf(name, label) == CHOOSE r \in StoreInputs : r.module = name /\ r.state = label

\* every record but name's is what it was
OthersKept(name) ==
    \A o \in Names \ {name} :
        /\ o \in DOMAIN states' <=> o \in DOMAIN states
        /\ o \in DOMAIN states => states'[o] = states[o]

\* C17: report_state(module, ...) leaves for the module exactly the record
\* built from the call's arguments and the current time (metadata empty, weight
\* override and expires_in unset when not passed, whatever the previous record
\* held); clear_state(module) removes the module's record and does nothing
\* when there is none; neither changes another module's record.
C17_ReportReplaces ==
    [][/\ last'.op = "report_state"
            => LET m == last'.name
               IN  /\ m \in DOMAIN states'
                   /\ LET r == InputOf(m, states'[m].state)
                      IN  states'[m] =
                             ModuleState(r.state,
                                         IF r.metadata = NoneV THEN {} ELSE r.metadata[1],
                                         r.weight, r.expires_in, now)
                   /\ OthersKept(m)
       /\ last'.op = "clear_state"
            => /\ last'.name \notin DOMAIN states'
               /\ OthersKept(last'.name)
               /\ last'.name \notin DOMAIN states => states' = states]_vars

\* C17 witness: at 20 s camera's record is the bare 'warning' just reported (no
\* metadata, no weight override, no expires_in, time stamp 20) and radar's
\* record from 0 s, with its metadata and expires_in, is still in the store.
C17_Witness ==
    /\ last.op = "report_state"
    /\ last.name = "camera"
    /\ now = 20
    /\ "camera" \in DOMAIN states
    /\ states["camera"] = ModuleState("warning", {}, NoneV, NoneV, 20)
    /\ "radar" \in DOMAIN states
    /\ states["radar"] = ModuleState("air-traffic", {"flights"}, NoneV, Some(-5), 0)

----------------------------------------------------------------------------
\* Properties of the order of the steps of update() (specification Spec)

\* C18: every update() calls update on each registered module exactly once, in
\* registry order and before any hook of that frame, whatever the modules'
\* active flags; the rules are resolved on the store as the modules' updates
\* left it (a report or a clear made by a module in its update counts in the
\* same frame); and a state dropped as expired in that frame is in the store
\* afterwards only if its module reported it again during its update.
C18_TickBetween ==
    [][last'.op = "update" =>
          /\ Len(last'.calls) >= Len(modules)
          /\ \A k \in 1..Len(modules) : last'.calls[k] = <<"update", modules[k]>>
          /\ \A m \in Names :
                Invoked(last', "update", m) = (IF Registered(Mgr, m) THEN 1 ELSE 0)
          /\ LET target == ResolvePriority(rules, states')
             IN  IF target # NoScreen
                 THEN current_screen' = target /\ idle_timer' = 0
                 ELSE current_screen' \in SeqSet(idle_cycle)
          /\ \A m \in last'.expired :
                m \in DOMAIN states'
                   => last'.name = m /\ states'[m].timestamp = now]_vars

\* C18 witness: at 20 s an update has dropped camera's expired state, ticked
\* the three modules (radar active, the others not), camera has reported again
\* in its own update, and the same update has resolved that report, hidden
\* radar and shown camera.
C18_Witness ==
    /\ last.op = "update"
    /\ last.expired = {"camera"}
    /\ last.name = "camera"
    /\ now = 20
    /\ "camera" \in DOMAIN states
    /\ states["camera"].timestamp = 20
    /\ Len(last.calls) = 5
    /\ \A k \in 1..3 : last.ctx[k].active <=> k = 2
    /\ last.calls[4] = <<"on_hide", "radar">>
    /\ last.calls[5] = <<"on_show", "camera">>
    /\ current_screen = "camera"

----------------------------------------------------------------------------
\* Properties of delegation and of duplicate registration (specifications
\* SpecFaulty and SpecLife)

\* the manager's own fields
ManagerState ==
    <<modules, active, states, rules, idle_cycle, idle_index, idle_timer,
      idle_dwell, state_timeout, current_screen, app_screen>>

\* C19: render and handle_event call the method of that name once on the
\* module current_screen names, when it names a registered module, and call
\* nothing else; when current_screen is unset or names no registered module
\* they call nothing; in every case they leave the manager's state as it was.
C19_DelegatesToActiveOnly ==
    [][last'.op \in {"render", "handle_event"} =>
          /\ last'.calls = IF current_screen # NoScreen /\ Registered(Mgr, current_screen)
                           THEN << <<last'.op, current_screen>> >>
                           ELSE << >>
          /\ ~last'.raised
          /\ ManagerState' = ManagerState]_vars

\* C19 witness: with three modules registered and camera the active screen,
\* render has called camera.render and nothing else.
C19_Witness ==
    /\ last.op = "render"
    /\ Len(modules) = 3
    /\ current_screen = "camera"
    /\ active["camera"]
    /\ last.calls = << <<"render", "camera">> >>

\* C20: register(name, module) with a name that is already registered raises
\* and changes nothing: registry, active flags, stored states, current_screen
\* and idle cursor are what they were, and no method of any module is called
\* (the rejected module is not bound, its on_load does not run); a name that is
\* not registered is accepted.
C20_DuplicateRejected ==
    [][last'.op = "register" =>
          /\ last'.raised <=> Registered(Mgr, last'.name)
          /\ last'.raised => (ManagerState' = ManagerState /\ last'.calls = << >>)]_vars

\* C20 witness: register('camera', ...) has been rejected while camera is
\* registered, active and has a stored state; all of that is still in place.
C20_Witness ==
    /\ last.op = "register"
    /\ last.name = "camera"
    /\ last.raised
    /\ last.calls = << >>
    /\ Registered(Mgr, "camera")
    /\ current_screen = "camera"
    /\ active["camera"]
    /\ "camera" \in DOMAIN states

----------------------------------------------------------------------------
\* Modules and their bindings: a manager constructed without modules, modules
\* registered, unregistered (on_unload returning or raising) and activated,
\* and module objects, bound or not, that call their own report_state.

\* the arguments of ScreenModule.report_state
ModuleReportInputs ==
    { [state |-> Some("warning"), metadata |-> NoneV, weight |-> NoneV, expires_in |-> NoneV],
      [state |-> Some("air-traffic"), metadata |-> Some({"flights"}), weight |-> Some(110),
       expires_in |-> Some(10)],
      [state |-> NoneV, metadata |-> NoneV, weight |-> NoneV, expires_in |-> NoneV] }

InitModule ==
    /\ modules = << >>
    /\ active = [n \in Names |-> FALSE]
    /\ bound = [n \in Names |-> FALSE]
    /\ states = << >>
    /\ rules = DefaultRules
    /\ idle_cycle = << >>
    /\ idle_index = 0
    /\ idle_timer = 0
    /\ idle_dwell = DefaultDwell
    /\ state_timeout = DefaultTimeout
    /\ current_screen = NoScreen
    /\ app_screen = NoScreen
    /\ now = 0
    /\ last = Constructed
    /\ elapsed = 0
    /\ exact = TRUE
    /\ upd = NotInUpdate
    /\ RestInit

NextModule ==
    \/ \E name \in Names : Register(name)
    \/ \E name \in Names : Unregister(name)
    \/ \E name \in Names : UnregisterRaising(name)
    \/ \E name \in {"camera", "radar"} : \E r \in ModuleReportInputs :
          ModuleReportState(name, r)
    \/ \E name \in Names : SetActive(name)

SpecModule == InitModule /\ [][NextModule]_vars

\* C21: report_state(state, ...) called on a bound module leaves in the store,
\* under the module's own name, a record with that label time-stamped now, and
\* with state = None leaves no record under that name; called on a module that
\* is not bound it raises and the store is what it was; in no case does it
\* touch another module's record.
C21_ModuleReportsUnderOwnName ==
    [][last'.op \in {"module.report_state", "module.report_state(None)"} =>
          LET m == last'.name
          IN  IF bound[m]
              THEN /\ ~last'.raised
                   /\ OthersKept(m)
                   /\ IF last'.op = "module.report_state"
                      THEN /\ m \in DOMAIN states'
                           /\ states'[m].timestamp = now
                           /\ \E r \in ModuleReportInputs :
                                 /\ r.state # NoneV
                                 /\ states'[m] =
                                       ModuleState(r.state[1],
                                                   IF r.metadata = NoneV THEN {}
                                                   ELSE r.metadata[1],
                                                   r.weight, r.expires_in, now)
                      ELSE m \notin DOMAIN states'
              ELSE last'.raised /\ states' = states]_vars

\* C21 witness: camera, unregistered and so unbound, has called report_state;
\* the call has raised and radar's record, the only one, is still in the store.
C21_Witness ==
    /\ last.op = "module.report_state"
    /\ last.name = "camera"
    /\ last.raised
    /\ ~bound["camera"]
    /\ ~Registered(Mgr, "camera")
    /\ DOMAIN states = {"radar"}
    /\ bound["radar"]

\* C22: every unbind (on_unload has been called on the module) leaves the
\* module with active false and manager, app and name cleared, whether
\* on_unload returned or raised; and a report_state called on a module in that
\* condition raises and stores nothing.
C22_UnbindAlwaysClears ==
    [][/\ \A m \in Names :
             Invoked(last', "on_unload", m) > 0 => ~active'[m] /\ ~bound'[m]
       /\ \A m \in Names :
             (~bound[m] /\ last'.name = m
                 /\ last'.op \in {"module.report_state", "module.report_state(None)"})
               => last'.raised /\ states' = states /\ ~bound'[m]]_vars

\* C22 witness: camera was the active screen when it was unregistered and its
\* on_unload raised; it is left inactive and unbound.
C22_Witness ==
    /\ last.op = "unregister"
    /\ last.name = "camera"
    /\ last.raised
    /\ last.calls = << <<"on_unload", "camera">> >>
    /\ last.ctx[1].active
    /\ ~active["camera"]
    /\ ~bound["camera"]

----------------------------------------------------------------------------
\* Properties of activation requests for unknown names and of shutdown
\* (specifications SpecLife and SpecFaulty)

\* nothing that an activation assigns has changed, and no hook has run
NotActivated ==
    /\ current_screen' = current_screen
    /\ active' = active
    /\ app_screen' = app_screen
    /\ ~FiredHook(last')
    /\ ~last'.raised

\* the idle-cycle entry an update without a matching rule asks to activate, or
\* NoScreen when it asks for none
IdleRequest ==
    IF idle_cycle = << >> THEN NoScreen
    ELSE IF current_screen \notin SeqSet(idle_cycle) THEN idle_cycle[1]
    ELSE IF idle_timer + last'.dt < idle_dwell THEN NoScreen
    ELSE idle_cycle[((idle_index + 1) % Len(idle_cycle)) + 1]

\* C23: a request to activate a name that is not registered changes nothing
\* and calls no hook: set_active of such a name leaves current_screen, every
\* active flag, the idle cursor and the host's mirrored name as they were, and
\* so does an update whose rules resolve to such a name; an idle advance onto
\* such a name leaves current_screen, the flags and the mirror as they were.
C23_UnknownNameIsNoOp ==
    [][LET target == ResolvePriority(rules, states')
       IN  /\ (last'.op = "set_active" /\ ~Registered(Mgr, last'.name))
                 => NotActivated /\ idle_index' = idle_index /\ last'.calls = << >>
           /\ (last'.op = "update" /\ target # NoScreen /\ ~Registered(Mgr, target))
                 => NotActivated /\ idle_index' = idle_index
           /\ (last'.op = "update" /\ target = NoScreen /\ IdleRequest # NoScreen
                   /\ ~Registered(Mgr, IdleRequest))
                 => NotActivated]_vars

\* C23 witness: set_active('camera') after camera was unregistered, with radar
\* the active screen: radar is still shown and nothing has been called.
C23_Witness ==
    /\ last.op = "set_active"
    /\ last.name = "camera"
    /\ ~Registered(Mgr, "camera")
    /\ last.calls = << >>
    /\ current_screen = "radar"
    /\ active["radar"]
    /\ app_screen = "radar"

\* C24 as stated: shutdown() calls on_unload on every registered module, in
\* registration order; afterwards the registry is empty, current_screen is
\* unset, no state is stored for a module that was registered, and each of
\* those modules is unbound with active false.
C24_Original ==
    [][last'.op = "shutdown" =>
          /\ last'.calls = [k \in 1..Len(modules) |-> <<"on_unload", modules[k]>>]
          /\ modules' = << >>
          /\ current_screen' = NoScreen
          /\ \A m \in SeqSet(modules) :
                m \notin DOMAIN states' /\ ~active'[m] /\ ~bound'[m]]_vars

----------------------------------------------------------------------------
\* The event bus.  One thread publishes; its handlers run on that thread and may
\* call the bus themselves; other threads subscribe and unsubscribe at any
\* moment the lock lets them.  bus.handlers is _handlers (topic -> list),
\* bus.lock the number of times the publishing thread holds _lock (an RLock),
\* bus.stack the publish calls in progress, innermost last, and bus.did the
\* most recent call or step.

Topics == {"motion", "flights"}

\* the handlers: one returns, one raises, one calls the bus from inside
Handlers == {"h_plain", "h_raising", "h_meddling"}

\* the payloads callers publish
Payloads == {"p1", "p2"}

\* at most MaxSubs subscriptions to the first topic and one fewer to the second
MaxSubs == 2

\* at most MaxDepth publish calls nested in one another
MaxDepth == 2

\* the number of subscriptions a topic is let to reach
SubsLimit(event) == IF event = "motion" THEN MaxSubs ELSE MaxSubs - 1

\* self._handlers.get(event, ())
HandlersGet(B, event) == IF event \in DOMAIN B.handlers THEN B.handlers[event] ELSE << >>

\* list.remove(x): the first occurrence goes
RemoveFirst(s, x) ==
    LET k == IndexOf(s, x) + 1
    IN  [i \in 1..(Len(s) - 1) |-> IF i < k THEN s[i] ELSE s[i + 1]]

\* lines 25-26 of subscribe
SubscribeBus(B, event, handler) ==
    [B EXCEPT !.handlers = DictSet(@, event, Append(HandlersGet(B, event), handler))]

\* lines 32-41 of unsubscribe
UnsubscribeBus(B, event, handler) ==
    LET listeners == HandlersGet(B, event)
    IN  IF listeners = << >> THEN B
        ELSE IF handler \notin SeqSet(listeners) THEN B
        ELSE LET rest == RemoveFirst(listeners, handler)
             IN  IF rest = << >> THEN [B EXCEPT !.handlers = DictPop(@, event)]
                 ELSE [B EXCEPT !.handlers = DictSet(@, event, rest)]

\* lines 47-48 of publish: the lock taken and the handler list copied; the
\* frame also keeps what the registry held for the topic at that moment
\* (snapshot) and the calls handler(payload) made since (invoked)
PushFrame(B, event, payload) ==
    [B EXCEPT !.lock = @ + 1,
              !.stack = Append(@, [event |-> event, payload |-> payload, pc |-> "locked",
                                   listeners |-> HandlersGet(B, event),
                                   snapshot |-> HandlersGet(B, event),
                                   i |-> 1, invoked |-> << >>, escaped |-> FALSE])]

Top(B) == B.stack[Len(B.stack)]

SetTop(B, frame) == [B EXCEPT !.stack[Len(B.stack)] = frame]

\* the list the loop of line 49 runs over, read from the live registry instead
\* of the copy of line 48
ListenersLive(B, frame) == HandlersGet(B, frame.event)

\* the list the loop of line 49 runs over
Listeners(B, frame) == frame.listeners

\* lines 49-53 with the except clause missing: the exception of a handler ends
\* the loop and leaves publish
AfterHandlerAbort(frame, handler) ==
    IF handler = "h_raising"
    THEN [frame EXCEPT !.invoked = Append(@, <<handler, frame.payload>>),
                       !.i = Len(frame.listeners) + 1, !.escaped = TRUE]
    ELSE [frame EXCEPT !.invoked = Append(@, <<handler, frame.payload>>), !.i = @ + 1]

\* lines 49-53: one iteration of the loop; an exception of the handler is
\* caught and printed
AfterHandler(frame, handler) ==
    [frame EXCEPT !.invoked = Append(@, <<handler, frame.payload>>), !.i = @ + 1]

\* the record of a call or step
BusDid(op, event, handler) == [op |-> op, event |-> event, handler |-> handler]

\* what `last` holds after a step of the bus: no operation of the module manager
BusStep ==
    [op |-> "bus", name |-> NoScreen, calls |-> <<>>, ctx |-> <<>>,
     dt |-> 0, raised |-> FALSE, expired |-> {}]

ManagerUntouched ==
    /\ last' = BusStep
    /\ UNCHANGED <<modules, active, bound, states, Config, idle_index, idle_timer,
                   current_screen, app_screen, now, elapsed, exact, upd, svc,
                   raw_config, ctor, race>>

\* subscribe(event, handler) by another thread: it waits for the lock
Subscribe(event, handler) ==
    /\ bus.lock = 0
    /\ Len(HandlersGet(bus, event)) < SubsLimit(event)
    /\ bus' = [SubscribeBus(bus, event, handler)
                  EXCEPT !.did = BusDid("subscribe", event, handler)]
    /\ ManagerUntouched

\* unsubscribe(event, handler) by another thread
Unsubscribe(event, handler) ==
    /\ bus.lock = 0
    /\ bus' = [UnsubscribeBus(bus, event, handler)
                  EXCEPT !.did = BusDid("unsubscribe", event, handler)]
    /\ ManagerUntouched

\* publish(event, payload) is called from outside any handler
PubStart(event, payload) ==
    /\ bus.stack = << >>
    /\ bus' = [PushFrame(bus, event, payload) EXCEPT !.did = BusDid("publish", event, "")]
    /\ ManagerUntouched

\* the end of the with block of lines 47-48
PubRelease ==
    /\ bus.stack # << >>
    /\ Top(bus).pc = "locked"
    /\ bus' = [SetTop(bus, [Top(bus) EXCEPT !.pc = "loop"])
                  EXCEPT !.lock = @ - 1, !.did = BusDid("release", Top(bus).event, "")]
    /\ ManagerUntouched

\* what the handler does while it runs: h_meddling calls subscribe,
\* unsubscribe or publish (of the payload it was given) on the bus; the others
\* leave the bus alone
HandlerEffects(B, handler, payload) ==
    IF handler # "h_meddling" THEN {B}
    ELSE {B}
         \cup {SubscribeBus(B, e, h) : e \in {x \in Topics : Len(HandlersGet(B, x)) < SubsLimit(x)},
                                       h \in Handlers}
         \cup {UnsubscribeBus(B, e, h) : e \in Topics, h \in Handlers}
         \cup {PushFrame(B, e, payload) : e \in {x \in Topics : Len(B.stack) < MaxDepth}}

\* one iteration of the loop of lines 49-53: the next handler is invoked
Invoke ==
    /\ bus.stack # << >>
    /\ Top(bus).pc = "loop"
    /\ Top(bus).i <= Len(Listeners(bus, Top(bus)))
    /\ LET handler == Listeners(bus, Top(bus))[Top(bus).i]
           B1 == SetTop(bus, AfterHandler(Top(bus), handler))
       IN  \E B2 \in HandlerEffects(B1, handler, Top(bus).payload) :
               bus' = [B2 EXCEPT !.did = [op |-> "invoke", event |-> Top(bus).event,
                                          handler |-> handler, lock |-> bus.lock]]
    /\ ManagerUntouched

\* the loop of line 49 is over and publish returns (or, had an exception left
\* the loop, raises)
PubEnd ==
    /\ bus.stack # << >>
    /\ Top(bus).pc = "loop"
    /\ Top(bus).i > Len(Listeners(bus, Top(bus)))
    /\ bus' = [bus EXCEPT !.stack = SubSeq(@, 1, Len(@) - 1),
                          !.did = [op |-> "published", event |-> Top(bus).event,
                                   handler |-> "", payload |-> Top(bus).payload,
                                   snapshot |-> Top(bus).snapshot,
                                   invoked |-> Top(bus).invoked,
                                   escaped |-> Top(bus).escaped]]
    /\ ManagerUntouched

NextBus ==
    \/ \E event \in Topics : \E handler \in Handlers : Subscribe(event, handler)
    \/ \E event \in Topics : \E handler \in Handlers : Unsubscribe(event, handler)
    \/ \E event \in Topics : \E payload \in Payloads : PubStart(event, payload)
    \/ PubRelease
    \/ Invoke
    \/ PubEnd

SpecBus == Init /\ [][NextBus]_vars

----------------------------------------------------------------------------
\* Properties of the event bus (specification SpecBus)

\* the calls handler(payload) a publish of the payload owes to a handler list
Delivered(listeners, payload) ==
    [k \in 1..Len(listeners) |-> <<listeners[k], payload>>]

\* C25: publish(event, payload) invokes every handler subscribed to event when
\* the snapshot is taken, once per subscription, in subscription order and with
\* the payload given, and invokes nothing else; a handler that raises does not
\* stop the ones after it and no exception leaves publish.  While a publish
\* runs, what it has invoked is the part of its snapshot before its position.
C25_PublishDeliversSnapshot ==
    /\ bus.did.op = "published" =>
          /\ bus.did.invoked = Delivered(bus.did.snapshot, bus.did.payload)
          /\ ~bus.did.escaped
    /\ \A k \in 1..Len(bus.stack) :
          /\ bus.stack[k].invoked =
                Delivered(SubSeq(bus.stack[k].snapshot, 1, bus.stack[k].i - 1),
                          bus.stack[k].payload)
          /\ ~bus.stack[k].escaped

\* C25 witness: a publish of p2 on motion returned after it invoked h_raising
\* and then h_plain, while flights had h_meddling subscribed.
C25_Witness ==
    /\ bus.did.op = "published"
    /\ bus.did.event = "motion"
    /\ bus.did.snapshot = <<"h_raising", "h_plain">>
    /\ bus.did.invoked = << <<"h_raising", "p2">>, <<"h_plain", "p2">> >>
    /\ HandlersGet(bus, "flights") = <<"h_meddling">>

\* the lock is held only between the entry of a publish and the end of its
\* with block
LockHeldOnlyForSnapshot(B) ==
    B.lock = (IF B.stack # << >> /\ Top(B).pc = "locked" THEN 1 ELSE 0)

\* C26: handlers run outside the lock, so a subscribe, unsubscribe or publish
\* made from a handler, or by another thread during a dispatch, finds the lock
\* free or about to be released; and no such call changes what a publish in
\* progress invokes: the list each publish in progress runs over stays the one
\* it copied, a publish that starts copies the registry of that moment, and a
\* publish that ends has invoked its copy whatever the registry has become.
C26_DispatchOutsideLock ==
    [][/\ LockHeldOnlyForSnapshot(bus')
       /\ bus'.did.op = "invoke" => bus'.did.lock = 0
       /\ \A k \in 1..Len(bus.stack) :
             k <= Len(bus'.stack) =>
                /\ bus'.stack[k].listeners = bus.stack[k].listeners
                /\ bus'.stack[k].listeners = bus'.stack[k].snapshot
       /\ bus'.did.op = "publish" =>
             Top(bus').listeners = HandlersGet(bus, bus'.did.event)
       /\ bus'.did.op = "published" =>
             bus'.did.invoked = Delivered(Top(bus).snapshot, Top(bus).payload)]_vars

\* C26 witness: a publish on motion copied <<h_meddling, h_plain>>; while it
\* ran, h_plain was unsubscribed and h_raising subscribed; it returned after
\* invoking h_meddling and h_plain.
C26_Witness ==
    /\ bus.did.op = "published"
    /\ bus.did.event = "motion"
    /\ bus.did.snapshot = <<"h_meddling", "h_plain">>
    /\ bus.did.invoked = << <<"h_meddling", "p1">>, <<"h_plain", "p1">> >>
    /\ HandlersGet(bus, "motion") = <<"h_meddling", "h_raising">>

\* C27 as stated: after unsubscribe(event, handler) returns the handler is not
\* subscribed to event any more, so that no later publish(event) invokes it,
\* however often it had been subscribed; and when the handler is not subscribed
\* to the topic the call leaves every subscription as it was.
C27_Original ==
    [][bus'.did.op = "unsubscribe" =>
          /\ bus'.did.handler \notin SeqSet(HandlersGet(bus', bus'.did.event))
          /\ bus'.did.handler \notin SeqSet(HandlersGet(bus, bus'.did.event))
                => bus'.handlers = bus.handlers]_vars

----------------------------------------------------------------------------
\* The service manager.  svc.instances is _instances in insertion order, each
\* instance a record of its service name and of its identity (the number of
\* instances constructed up to it).

\* _service_defs, in the order of the mapping: whether the service is enabled
\* and whether its class has start and stop methods
ServiceDefs ==
    << [name |-> "mqtt",    enabled |-> TRUE,  start |-> TRUE,  stop |-> TRUE],
       [name |-> "audio",   enabled |-> FALSE, start |-> TRUE,  stop |-> TRUE],
       [name |-> "flights", enabled |-> TRUE,  start |-> TRUE,  stop |-> TRUE],
       [name |-> "clock",   enabled |-> TRUE,  start |-> FALSE, stop |-> FALSE] >>

ServiceNames == {ServiceDefs[i].name : i \in 1..Len(ServiceDefs)}

\* no service at all: every start() and stop() returns
NoService == "none"

\* at most MaxInstances instances are constructed before a run ends
MaxInstances == 6

\* name in self._instances
HasInstance(S, name) == \E i \in 1..Len(S.instances) : S.instances[i].name = name

\* the definition of the service an instance was made from
DefOf(name) == ServiceDefs[CHOOSE i \in 1..Len(ServiceDefs) : ServiceDefs[i].name = name]

\* lines 37-51 of start_all from the i-th definition on; start() of the
\* service `fail` raises, which ends start_all
RECURSIVE StartFrom(_, _, _)
StartFrom(S, i, fail) ==
    IF i > Len(ServiceDefs) THEN S
    ELSE LET d == ServiceDefs[i]
             instance == [name |-> d.name, id |-> S.made + 1]
             S1 == [S EXCEPT !.made = @ + 1, !.created = Append(@, d.name)]
             S2 == IF d.start THEN [S1 EXCEPT !.started = Append(@, d.name)] ELSE S1
         IN  IF ~d.enabled THEN StartFrom(S, i + 1, fail)
             ELSE IF HasInstance(S, d.name) THEN StartFrom(S, i + 1, fail)
             ELSE IF d.start /\ d.name = fail THEN [S2 EXCEPT !.raised = TRUE]
             ELSE StartFrom([S2 EXCEPT !.instances = Append(@, instance)], i + 1, fail)

\* lines 57-63 of stop_all with the try/except missing: the exception of a
\* stop() leaves stop_all before the instance is popped
StopInstanceNoCatch(S, instance, raises) ==
    IF DefOf(instance.name).stop /\ raises
    THEN [S EXCEPT !.did.stopped = Append(@, instance.id), !.raised = TRUE]
    ELSE [S EXCEPT !.did.stopped = IF DefOf(instance.name).stop
                                   THEN Append(@, instance.id) ELSE @,
                   !.instances = SelectSeq(@, LAMBDA x : x.name # instance.name)]

\* lines 57-63 of stop_all: one iteration; stop() is called when the instance
\* has one, its exception is caught and printed, and the name is popped
StopInstance(S, instance, raises) ==
    [S EXCEPT !.did.stopped = IF DefOf(instance.name).stop
                              THEN Append(@, instance.id) ELSE @,
              !.instances = SelectSeq(@, LAMBDA x : x.name # instance.name)]

\* the loop of line 56 over the copy `items` of the registry; an exception that
\* left an iteration would end it
RECURSIVE StopFrom(_, _, _)
StopFrom(S, items, raising) ==
    IF items = << >> \/ S.raised THEN S
    ELSE StopFrom(StopInstance(S, Head(items), Head(items).name \in raising),
                  Tail(items), raising)

\* what `last` holds after a call of the service manager
ServiceStep ==
    [op |-> "services", name |-> NoScreen, calls |-> <<>>, ctx |-> <<>>,
     dt |-> 0, raised |-> FALSE, expired |-> {}]

ServicesOnly ==
    /\ last' = ServiceStep
    /\ UNCHANGED <<modules, active, bound, states, Config, idle_index, idle_timer,
                   current_screen, app_screen, now, elapsed, exact, upd, bus,
                   raw_config, ctor, race>>

\* start_all(), where start() of the service `fail` raises
StartAll(fail) ==
    /\ svc.made < MaxInstances
    /\ LET S == StartFrom([svc EXCEPT !.raised = FALSE], 1, fail)
       IN  svc' = [S EXCEPT !.did = [op |-> "start_all", raised |-> S.raised]]
    /\ ServicesOnly

\* stop_all(), where stop() of the services in `raising` raises
StopAll(raising) ==
    /\ LET S0 == [svc EXCEPT !.raised = FALSE,
                             !.did = [op |-> "stop_all", before |-> svc.instances,
                                      raising |-> raising, stopped |-> << >>,
                                      raised |-> FALSE]]
           S == StopFrom(S0, svc.instances, raising)
       IN  svc' = [S EXCEPT !.did.raised = S.raised,
                            !.created = << >>, !.started = << >>]
    /\ ServicesOnly

NextServices ==
    \/ \E fail \in ServiceNames \cup {NoService} : StartAll(fail)
    \/ \E raising \in SUBSET ServiceNames : StopAll(raising)

SpecServices == Init /\ [][NextServices]_vars

----------------------------------------------------------------------------
\* Properties of the service manager (specification SpecServices)

\* the identities of the instances of `items` that have a stop method, in order
Stoppable(items) ==
    LET having == SelectSeq(items, LAMBDA x : DefOf(x.name).stop)
    IN  [k \in 1..Len(having) |-> having[k].id]

\* C28: stop_all() calls stop() once on every instance of the registry that has
\* one, in registry order, whichever of them raise; nothing leaves stop_all and
\* the registry is empty when it returns, so that every instance a later
\* start_all() records is one constructed by that call.
C28_StopAllStopsEvery ==
    [][/\ svc'.did.op = "stop_all" =>
             /\ svc'.did.stopped = Stoppable(svc.instances)
             /\ ~svc'.did.raised
             /\ svc'.instances = << >>
       /\ (svc'.did.op = "start_all" /\ svc.did.op = "stop_all") =>
             \A k \in 1..Len(svc'.instances) : svc'.instances[k].id > svc.made]_vars

\* C28 witness: mqtt, flights and clock were running; stop() of mqtt and of
\* flights raised; stop_all returned after calling both, with the registry empty.
C28_Witness ==
    /\ svc.did.op = "stop_all"
    /\ Len(svc.did.before) = 3
    /\ svc.did.raising = {"mqtt", "flights"}
    /\ Len(svc.did.stopped) = 2
    /\ svc.instances = << >>

\* the number of entries of a sequence that equal x
Count(s, x) == Cardinality({k \in 1..Len(s) : s[k] = x})

\* C29 as stated: over the start_all() calls since the last stop_all(), each
\* enabled service has been instantiated at most once and started at most once,
\* also when a start_all was cut short by a failing service, and a disabled
\* service has not been instantiated.
C29_Original ==
    \A i \in 1..Len(ServiceDefs) :
        /\ Count(svc.created, ServiceDefs[i].name) <= 1
        /\ Count(svc.started, ServiceDefs[i].name) <= 1
        /\ ~ServiceDefs[i].enabled => Count(svc.created, ServiceDefs[i].name) = 0

----------------------------------------------------------------------------
\* Loading the priority rules.  raw_config is the "rules" list of a mapping
\* that has no other key; its values are Python values tagged with their type.

Absent == [t |-> "absent"]

PyNone == [t |-> "None"]

PyInt(n) == [t |-> "int", n |-> n]

\* a float, given in tenths
PyFloat(tenths) == [t |-> "float", tenths |-> tenths]

PyInf == [t |-> "inf"]

\* a str used as a name or label
PyStr(s) == [t |-> "str", s |-> s]

\* a str given as weight, as the sequence of its characters
PyText(chars) == [t |-> "text", chars |-> chars]

PyList(items) == [t |-> "list", items |-> items]

\* a mapping with the keys "module" and "state"
When(module, state) == [t |-> "map", module |-> module, state |-> state]

\* a mapping with the keys "when", "weight" and "screen"
RawRule(when, weight, screen) ==
    [t |-> "map", when |-> when, weight |-> weight, screen |-> screen]

Digits == <<"0", "1", "2", "3", "4", "5", "6", "7", "8", "9">>

\* whether int() accepts the characters: an optional sign and then digits
IsNumeral(chars) ==
    LET body == IF chars # << >> /\ chars[1] \in {"-", "+"} THEN Tail(chars) ELSE chars
    IN  body # << >> /\ \A k \in 1..Len(body) : body[k] \in SeqSet(Digits)

RECURSIVE DigitsValue(_, _)
DigitsValue(chars, acc) ==
    IF chars = << >> THEN acc
    ELSE DigitsValue(Tail(chars), 10 * acc + IndexOf(Digits, Head(chars)))

\* int() of accepted characters
NumeralValue(chars) ==
    IF chars[1] = "-" THEN 0 - DigitsValue(Tail(chars), 0)
    ELSE IF chars[1] = "+" THEN DigitsValue(Tail(chars), 0)
    ELSE DigitsValue(chars, 0)

\* lines 163-166: int(weight), TypeError and ValueError giving 0; the
\* OverflowError of an infinite float is not caught
IntOf(weight) ==
    CASE weight.t = "absent" -> [raised |-> FALSE, v |-> 0]
      [] weight.t = "int"    -> [raised |-> FALSE, v |-> weight.n]
      [] weight.t = "float"  -> [raised |-> FALSE,
                                 v |-> IF weight.tenths >= 0 THEN weight.tenths \div 10
                                       ELSE 0 - ((0 - weight.tenths) \div 10)]
      [] weight.t = "text"   -> [raised |-> FALSE,
                                 v |-> IF IsNumeral(weight.chars)
                                       THEN NumeralValue(weight.chars) ELSE 0]
      [] weight.t = "inf"    -> [raised |-> TRUE, v |-> 0]
      [] OTHER               -> [raised |-> FALSE, v |-> 0]

\* lines 158-160 and list(states) of line 167; list() of None or of a number
\* raises TypeError
ListOf(state) ==
    CASE state.t = "absent" -> [raised |-> FALSE, v |-> << >>]
      [] state.t = "str"    -> [raised |-> FALSE, v |-> <<state.s>>]
      [] state.t = "list"   -> [raised |-> FALSE, v |-> state.items]
      [] OTHER              -> [raised |-> TRUE, v |-> << >>]

\* lines 154-157: the module name of an entry, a falsy value when it has none
ModuleName(raw_rule) ==
    IF raw_rule.t # "map" THEN PyNone
    ELSE IF raw_rule.when.t # "map" THEN PyNone
    ELSE IF raw_rule.when.module.t = "absent" THEN PyNone
    ELSE raw_rule.when.module

\* `not module_name`
Falsy(value) == value.t = "None" \/ (value.t = "str" /\ value.s = "")

\* lines 152-167: the loop over the entries from the i-th on; L holds the
\* rules appended so far and whether an exception has left the loop
RECURSIVE LoadRules(_, _, _)
LoadRules(raw, i, L) ==
    IF i > Len(raw) \/ L.raised THEN L
    ELSE LET raw_rule == raw[i]
             module_name == ModuleName(raw_rule)
             state_list == ListOf(raw_rule.when.state)
             weight_int == IntOf(raw_rule.weight)
             screen == IF raw_rule.screen.t = "absent" THEN module_name.s
                       ELSE raw_rule.screen.s
         IN  IF Falsy(module_name) THEN LoadRules(raw, i + 1, L)
             ELSE IF weight_int.raised \/ state_list.raised THEN [L EXCEPT !.raised = TRUE]
             ELSE LoadRules(raw, i + 1,
                     [L EXCEPT !.rules = Append(@,
                         PriorityRule(module_name.s, SeqSet(state_list.v), weight_int.v,
                                      screen))])

\* the values of when.state in hand-edited configurations
RawStates ==
    {Absent, PyNone, PyInt(5), PyStr("danger"), PyList(<< >>),
     PyList(<<"danger", "warning", "danger">>)}

\* the values of weight
RawWeights ==
    {Absent, PyNone, PyInt(100), PyFloat(27), PyFloat(-27), PyInf,
     PyText(<<"5", "0">>), PyText(<<"-", "5">>), PyText(<<"5", "x">>), PyText(<< >>)}

\* the entries of the "rules" list
RawEntries ==
    {RawRule(When(PyStr("camera"), st), w, Absent) : st \in RawStates, w \in RawWeights}
    \cup {RawRule(When(m, PyStr("air-traffic")), PyInt(80), sc) :
             m \in {Absent, PyNone, PyStr(""), PyStr("radar")},
             sc \in {Absent, PyStr("camera")}}
    \cup {PyStr("radar"), PyNone,
          RawRule(Absent, PyInt(80), Absent),
          RawRule(PyStr("radar"), PyInt(80), PyStr("radar"))}

\* at most MaxEntries entries in the "rules" list
MaxEntries == 2

\* the "rules" lists
RawConfigs ==
    UNION {[1..n -> RawEntries] : n \in 0..MaxEntries}

\* __init__ up to line 98, with the mapping it was handed
InitConfig ==
    /\ modules = << >>
    /\ active = [n \in Names |-> FALSE]
    /\ bound = [n \in Names |-> FALSE]
    /\ states = << >>
    /\ rules = << >>
    /\ idle_cycle = << >>
    /\ idle_index = 0
    /\ idle_timer = 0
    /\ idle_dwell = DefaultDwell
    /\ state_timeout = DefaultTimeout
    /\ current_screen = NoScreen
    /\ app_screen = NoScreen
    /\ now = 0
    /\ last = Constructed
    /\ elapsed = 0
    /\ exact = TRUE
    /\ upd = NotInUpdate
    /\ bus = NewBus
    /\ svc = NewServices
    /\ raw_config \in {Some(c) : c \in RawConfigs}
    /\ ctor = NoneV
    /\ race = NewRace

\* _load_priority_config(raw_config) as __init__ calls it (line 101): the
\* mapping has no "timeout_seconds" and no "idle" key, so only the rules change
LoadPriorityConfig ==
    /\ last.op = "init"
    /\ raw_config # NoneV
    /\ LET L == LoadRules(raw_config[1], 1, [rules |-> << >>, raised |-> FALSE])
       IN  /\ rules' = L.rules
           /\ last' = [Constructed EXCEPT !.op = "load_priority_config",
                                          !.raised = L.raised]
    /\ UNCHANGED <<modules, active, bound, states, idle_cycle, idle_dwell,
                   state_timeout, idle_index, idle_timer, current_screen,
                   app_screen, now, elapsed, exact, upd, Rest>>


SpecConfig == InitConfig /\ [][LoadPriorityConfig]_vars

----------------------------------------------------------------------------
\* Properties of loading the rules (specification SpecConfig)

\* an entry that is a mapping whose "when" names a module
NamesModule(raw_rule) ==
    /\ raw_rule.t = "map"
    /\ raw_rule.when.t = "map"
    /\ raw_rule.when.module.t = "str"
    /\ raw_rule.when.module.s # ""

\* the rule an entry that names a module stands for: the state labels as a
\* set, empty for a wildcard; the weight as an integer, 0 when it is not a
\* number; the screen, the module name when omitted
RuleFor(raw_rule) ==
    PriorityRule(raw_rule.when.module.s,
                 CASE raw_rule.when.state.t = "str"  -> {raw_rule.when.state.s}
                   [] raw_rule.when.state.t = "list" -> SeqSet(raw_rule.when.state.items)
                   [] OTHER                          -> {},
                 IF IntOf(raw_rule.weight).raised THEN 0 ELSE IntOf(raw_rule.weight).v,
                 IF raw_rule.screen.t = "absent" THEN raw_rule.when.module.s
                 ELSE raw_rule.screen.s)

\* the rules a "rules" list stands for, in its order
RulesFor(raw) ==
    LET named == SelectSeq(raw, NamesModule)
    IN  [k \in 1..Len(named) |-> RuleFor(named[k])]

\* C30 as stated: loading a priority configuration never raises on malformed
\* rule entries, and afterwards the rules are, in configuration order, one per
\* entry that names a module, with the state labels as a set, the weight an
\* integer (0 for a malformed one) and the screen defaulting to the module.
C30_Original ==
    [][last'.op = "load_priority_config" =>
          /\ ~last'.raised
          /\ rules' = RulesFor(raw_config[1])]_vars

----------------------------------------------------------------------------
\* Properties of the manager as a whole (specification SpecLife)

\* C31: whatever register, unregister, update, set_active, report_state,
\* clear_state and shutdown have done (no hook raising), current_screen is
\* unset or names a registered module, and a registered module's active flag
\* is set exactly when current_screen is its name.
C31_OneActiveScreen ==
    /\ current_screen = NoScreen \/ Registered(Mgr, current_screen)
    /\ \A m \in SeqSet(modules) : active[m] <=> (m = current_screen)

\* C31 witness: camera, once shown, was unregistered and registered again, and
\* an update has since moved the screen from radar back to camera.
C31_Witness ==
    /\ last.op = "update"
    /\ last.calls = << <<"update", "radar">>, <<"update", "neo_tracker">>,
                       <<"update", "camera">>, <<"on_hide", "radar">>,
                       <<"on_show", "camera">> >>
    /\ current_screen = "camera"
    /\ active["camera"] /\ ~active["radar"] /\ ~active["neo_tracker"]

\* C32: when the rule that wins names a screen that is not registered, update
\* changes neither current_screen nor an active flag nor the host's mirror and
\* fires no show/hide hook, leaves the idle timer at 0 and the idle cursor
\* where it was; it does so on every update while that rule wins, whether or
\* not a lower rule with a registered screen matches too.
C32_UnregisteredWinnerStalls ==
    [][LET target == ResolvePriority(rules, states')
       IN  (last'.op = "update" /\ target # NoScreen /\ ~Registered(Mgr, target)) =>
              /\ NotActivated
              /\ idle_timer' = 0
              /\ idle_index' = idle_index]_vars

\* C32 witness: camera is unregistered but its 'warning' is stored, radar is
\* registered and reports air-traffic, neo_tracker is shown; an update of 20 s
\* has left neo_tracker shown.
C32_Witness ==
    /\ last.op = "update"
    /\ last.dt = 20
    /\ ~Registered(Mgr, "camera")
    /\ Registered(Mgr, "radar")
    /\ ResolvePriority(rules, states) = "camera"
    /\ "radar" \in DOMAIN states
    /\ current_screen = "neo_tracker"
    /\ active["neo_tracker"]
    /\ idle_timer = 0

\* C34 as stated: the idle cursor is a position of the idle cycle, and when
\* current_screen is an entry of the cycle the cursor is at an entry equal to it.
C34_Original ==
    idle_cycle # << >> =>
        /\ idle_index \in 0..(Len(idle_cycle) - 1)
        /\ current_screen \in SeqSet(idle_cycle) =>
              idle_cycle[idle_index + 1] = current_screen

\* C37 as stated: once a screen has been activated, the host's current_screen
\* equals the manager's after every operation, also when the manager's becomes
\* unset by unregister or shutdown.
C37_Original ==
    app_screen # NoScreen => app_screen = current_screen

----------------------------------------------------------------------------
\* The lifetime of a state reported without one (specification SpecStore)

\* C39 as stated: a state reported with expires_in omitted (None) or not
\* positive is never removed by an update, whatever the default timeout is.
C39_Original ==
    [][last'.op = "update" =>
          \A m \in DOMAIN states :
              (IsNone(states[m].expires_in) \/ Val(states[m].expires_in) <= 0)
                 => m \in DOMAIN states' /\ m \notin last'.expired]_vars

----------------------------------------------------------------------------
\* Unsubscribing while a publish is in progress (specification SpecBus)

\* C36 as stated: once unsubscribe(event, h) has returned, h is not invoked for
\* event again, also by a publish that copied the handler list before: every
\* handler a publish invokes is subscribed to the topic when it is invoked.
C36_Original ==
    [][bus'.did.op = "invoke" =>
          bus'.did.handler \in SeqSet(HandlersGet(bus, bus'.did.event))]_vars

----------------------------------------------------------------------------
\* The idle cycle going round for ever: no rule, no state, every module
\* registered, and updates with dt > 0 that keep coming.

\* the idle cycles __init__ can leave: lists of registered names in which a name
\* may occur more than once
RoundCycles == UNION {[1..n -> Names] : n \in 1..3}

InitRound ==
    /\ modules = InitialModules
    /\ active = [n \in Names |-> FALSE]
    /\ states = << >>
    /\ rules = << >>
    /\ idle_cycle \in RoundCycles
    /\ idle_index = 0
    /\ idle_timer = 0
    /\ idle_dwell \in IdleDwells
    /\ state_timeout = DefaultTimeout
    /\ current_screen = NoScreen
    /\ app_screen = NoScreen
    /\ now = 0
    /\ last = Constructed
    /\ elapsed = 0
    /\ exact = TRUE
    /\ upd = NotInUpdate
    /\ bound = [n \in Names |-> TRUE]
    /\ RestInit

\* update(dt) with dt > 0
RoundUpdate ==
    \E dt \in LifeDtValues \ {0} : Update(dt, NoTick) /\ UNCHANGED <<elapsed, exact>>

\* the host loop never stops calling update
SpecRound == InitRound /\ [][RoundUpdate]_vars /\ WF_vars(RoundUpdate)

\* C35 as stated: with no rule matching, a positive dwell and every entry
\* registered, repeated updates with dt > 0 show every name of the idle cycle
\* again and again, also when the cycle lists a name at more than one position.
C35_Original ==
    \A n \in Names : []<>(n \in SeqSet(idle_cycle) => current_screen = n)

----------------------------------------------------------------------------
\* unregister(name) on the owning thread while a background thread is inside
\* report_state of the same module object.  Neither call holds a lock, so the
\* threads interleave between any two field accesses; the steps below are cut
\* at the accesses the two calls share: the module's manager and name fields
\* and the state store.

\* one step of unregister(name): lines 196-199 with lines 67-71 of unbind (the
\* module popped, on_unload run, active and manager cleared), then lines 72-73
\* (name cleared), then lines 200-202
UnregisterStep(name) ==
    /\ upd.pc = "idle"
    /\ \/ /\ race.u = "idle"
          /\ Registered(Mgr, name)
          /\ modules' = SeqRemove(modules, name)
          /\ active' = [active EXCEPT ![name] = FALSE]
          /\ bound' = [bound EXCEPT ![name] = FALSE]
          /\ race' = [race EXCEPT !.u = "no_manager"]
          /\ UNCHANGED <<states, current_screen>>
       \/ /\ race.u = "no_manager"
          /\ race' = [race EXCEPT !.u = "unbound", !.named = FALSE]
          /\ UNCHANGED <<modules, active, bound, states, current_screen>>
       \/ /\ race.u = "unbound"
          /\ states' = DictPop(states, name)
          /\ current_screen' = IF current_screen = name THEN NoScreen ELSE current_screen
          /\ race' = [race EXCEPT !.u = "done"]
          /\ UNCHANGED <<modules, active, bound>>
    /\ last' = [Constructed EXCEPT !.op = "unregister (step)", !.name = name]
    /\ UNCHANGED <<Config, idle_index, idle_timer, app_screen, now, elapsed, exact,
                   upd, bus, svc, raw_config, ctor>>

\* one step of report_state(state, ...) of the module object registered as
\* `name`, state not None: the test of line 144, the test of line 146, the read
\* of self.manager at line 151 (AttributeError when it is None by now), the
\* read of self.name at line 152, and the store of line 379 of the manager
ModuleReportStep(name) ==
    /\ \/ /\ race.r = "idle"
          /\ race' = [race EXCEPT !.r = IF bound[name] THEN "checked_manager" ELSE "failed"]
          /\ UNCHANGED states
       \/ /\ race.r = "checked_manager"
          /\ race' = [race EXCEPT !.r = IF race.named THEN "checked_name" ELSE "failed"]
          /\ UNCHANGED states
       \/ /\ race.r = "checked_name"
          /\ race' = [race EXCEPT !.r = IF bound[name] THEN "got_manager" ELSE "failed"]
          /\ UNCHANGED states
       \/ /\ race.r = "got_manager"
          /\ race' = [race EXCEPT !.r = "got_name",
                                  !.key = IF race.named THEN name ELSE NoScreen]
          /\ UNCHANGED states
       \/ /\ race.r = "got_name"
          /\ \E r \in {x \in ModuleReportInputs : ~IsNone(x.state)} :
                states' = StoreState(Mgr, Forwarded(race.key, r)).states
          /\ race' = [race EXCEPT !.r = "done"]
    /\ last' = [Constructed EXCEPT !.op = "module.report_state (step)", !.name = name]
    /\ UNCHANGED <<modules, active, bound, current_screen, Config, idle_index,
                   idle_timer, app_screen, now, elapsed, exact, upd, bus, svc,
                   raw_config, ctor>>

\* the manager at work, then unregister('camera') and camera's report_state
\* running against each other
NextRace ==
    \/ race = NewRace /\ \E r \in LifeReports : ReportState(r)
    \/ race = NewRace /\ \E name \in Names : SetActive(name)
    \/ UnregisterStep("camera")
    \/ ModuleReportStep("camera")

SpecRace == Init /\ [][NextRace]_vars

\* C33 as stated: once unregister('camera') has returned and the report that
\* was in flight has finished (stored or failed), the state store holds no
\* record for 'camera' and none under a null name.
C33_Original ==
    (race.u = "done" /\ race.r \in {"done", "failed"})
        => ("camera" \notin DOMAIN states /\ NoScreen \notin DOMAIN states)

----------------------------------------------------------------------------
\* The idle cycle ModuleManager(app, modules, priorities=, idle_cycle=) leaves.
\* ctor holds the arguments: modules (the names of the mapping, in its order),
\* idle_cycle (NoneV when omitted) and cycle, the value of
\* priorities["idle"]["cycle"] (Absent when priorities is omitted or has no
\* such key).

\* the lists have at most MaxCycle entries
MaxCycle == 2

\* the arguments of the constructor: the cycles may name eonet_globe, a module
\* that is not in the mapping, and may name a module twice
CtorInputs ==
    LET Cycles == UNION {[1..n -> Names \cup {"eonet_globe"}] : n \in 0..MaxCycle}
        Orders == {m \in UNION {[1..n -> Names] : n \in 0..Cardinality(Names)} :
                      \A i, j \in 1..Len(m) : i # j => m[i] # m[j]}
    IN  [modules : Orders,
         idle_cycle : {NoneV} \cup {Some(c) : c \in Cycles},
         cycle : {Absent, PyNone, PyStr("radar")} \cup {PyList(c) : c \in Cycles}]

\* lines 93-112 without lines 111-112: a cycle none of whose names is
\* registered is left empty
ConstructedCycleNoFallback(arg, cfg, mods) ==
    LET c0 == IF IsNone(arg) THEN << >> ELSE Val(arg)
        c1 == CASE cfg.t = "list" -> cfg.items
                [] cfg.t = "str"  -> <<cfg.s>>
                [] OTHER          -> c0
        c2 == IF c1 = << >> THEN mods ELSE c1
    IN  SelectSeq(c2, LAMBDA n : n \in SeqSet(mods))

\* _idle_cycle at the end of __init__: line 93 (the argument), lines 138-142
\* of _load_priority_config (a list or a str in the configuration replaces
\* it), lines 106-107 (all modules when empty) and lines 109-112 (the
\* unregistered names dropped; all modules when none is left)
ConstructedCycle(arg, cfg, mods) ==
    LET c0 == IF IsNone(arg) THEN << >> ELSE Val(arg)
        c1 == CASE cfg.t = "list" -> cfg.items
                [] cfg.t = "str"  -> <<cfg.s>>
                [] OTHER          -> c0
        c2 == IF c1 = << >> THEN mods ELSE c1
        c3 == SelectSeq(c2, LAMBDA n : n \in SeqSet(mods))
    IN  IF c2 = << >> THEN c2
        ELSE IF c3 = << >> /\ mods # << >> THEN mods
        ELSE c3

\* lines 103-104: register(name, module) for the entries of the mapping from
\* the i-th on
RECURSIVE RegisterAll(_, _, _)
RegisterAll(M, mods, i) ==
    IF i > Len(mods) THEN M
    ELSE RegisterAll(RegisterModule(M, mods[i]), mods, i + 1)

\* the fields as lines 89-98 set them, and the arguments
InitCtor ==
    /\ modules = << >>
    /\ active = [n \in Names |-> FALSE]
    /\ bound = [n \in Names |-> FALSE]
    /\ states = << >>
    /\ rules = << >>
    /\ idle_cycle = << >>
    /\ idle_index = 0
    /\ idle_timer = 0
    /\ idle_dwell = DefaultDwell
    /\ state_timeout = DefaultTimeout
    /\ current_screen = NoScreen
    /\ app_screen = NoScreen
    /\ now = 0
    /\ last = [Constructed EXCEPT !.op = "new"]
    /\ elapsed = 0
    /\ exact = TRUE
    /\ upd = NotInUpdate
    /\ bus = NewBus
    /\ svc = NewServices
    /\ raw_config = NoneV
    /\ ctor \in {Some(c) : c \in CtorInputs}
    /\ race = NewRace

\* ModuleManager.__init__, lines 100-112
Construct ==
    /\ last.op = "new"
    /\ ctor # NoneV
    /\ \E M \in {RegisterAll(Mgr, ctor[1].modules, 1)} :
          /\ Install(M)
          /\ last' = Done("init", NoScreen, M, {})
    /\ idle_cycle' = ConstructedCycle(ctor[1].idle_cycle, ctor[1].cycle, ctor[1].modules)
    /\ UNCHANGED <<rules, idle_dwell, state_timeout, now, elapsed, exact, upd, Rest>>

SpecCtor == InitCtor /\ [][Construct]_vars

\* the cycle the caller configured: the one of the priorities when they give
\* one, else the idle_cycle argument, else none
Configured ==
    CASE ctor[1].cycle.t = "list"     -> ctor[1].cycle.items
      [] ctor[1].cycle.t = "str"      -> <<ctor[1].cycle.s>>
      [] IsNone(ctor[1].idle_cycle)   -> << >>
      [] OTHER                        -> Val(ctor[1].idle_cycle)

\* C38: after construction every entry of the idle cycle is a registered
\* module and the cycle is empty only when no module is registered; the cycle
\* is the configured one (the one of the priorities in place of the idle_cycle
\* argument) without the names that are not registered, in its order, or all
\* registered modules in registration order when that leaves nothing.
C38_CycleOfRegisteredNames ==
    last.op = "init" =>
        LET kept == SelectSeq(Configured, LAMBDA n : n \in SeqSet(modules))
        IN  /\ modules = ctor[1].modules
            /\ \A k \in 1..Len(idle_cycle) : Registered(Mgr, idle_cycle[k])
            /\ idle_cycle = << >> => modules = << >>
            /\ idle_cycle = IF kept = << >> THEN modules ELSE kept

\* C38 witness: radar and camera were registered, the idle_cycle argument was
\* [radar, camera] and the priorities gave [eonet_globe, camera]: the cycle is
\* [camera].
C38_Witness ==
    /\ last.op = "init"
    /\ modules = <<"radar", "camera">>
    /\ ctor[1].idle_cycle = Some(<<"radar", "camera">>)
    /\ ctor[1].cycle = PyList(<<"eonet_globe", "camera">>)
    /\ idle_cycle = <<"camera">>

====
